---- MODULE Spec2Model ----
(***************************************************************************)
(* Model of the ai-chat-service of jiaa-fastapi (src/ai-chat-service).     *)
(*                                                                         *)
(* The database tables are functions keyed by primary key, the in-memory   *)
(* transcript cache is a function keyed by session id, the Message Log is  *)
(* a sequence in insertion order.  The handlers declared `def` run in the  *)
(* thread pool and are one action each (one database transaction); the     *)
(* `async def` chat turn runs on the event loop, so at most one turn is in *)
(* flight, and its steps interleave with the thread-pool handlers.         *)
(***************************************************************************)
EXTENDS Integers, Sequences, FiniteSets, TLC

VARIABLES
    started,               \* the startup event has run
    personalities,         \* table personalities: id -> row
    session_configs,       \* table session_configs: session_id -> row
    conversation_messages, \* table conversation_messages, in insertion order
    conversation_history,  \* main.conversation_history: session_id -> transcript
    turn,                  \* the chat turn in flight on the event loop
    active_connections,    \* main.active_connections: session_id -> connection
    connections,           \* the open /ws/chat connections: connection -> the
                           \* session_id variable of its coroutine
    selected,              \* per session: the personality of the last successful
                           \* select_personality, until a start_roadmap succeeds
    last                   \* the last step taken and what it handed to its caller

vars == <<started, personalities, session_configs, conversation_messages,
          conversation_history, active_connections, connections, turn, selected, last>>

----------------------------------------------------------------------------
(* Bounds *)

\* rows of the Message Log: a turn starts only when its two rows still fit
MaxLog == 2

----------------------------------------------------------------------------
(* Values *)

\* Python's None where the other values are strings
None == "None"

\* session ids a client can name or uuid4 can generate
SessionIds == {"s1", "s2"}

\* user_id strings a client can send: "u1" and "U1" spell the same UUID,
\* "bad" is no UUID
UserIdStrings == {"u1", "u2", "bad"}

\* uuid.UUID(user_id): the UUID value, or ValueError
ValueError == "ValueError"

UUIDOf(user_id) ==
    CASE user_id \in {"u1", "U1"} -> "uuid-1"
      [] user_id = "u2" -> "uuid-2"
      [] OTHER -> ValueError

UUIDs == {"uuid-1", "uuid-2"}

\* a NULL personality_id; ids are serial, from 1
NoPersonality == 0

ROADMAP_SYSTEM_PROMPT == "ROADMAP_SYSTEM_PROMPT"

FALLBACK_PROMPT == "generic assistant"

DEFAULT_PERSONALITY_NAME == "betain"

\* the rows init_db inserts, in order
SeedPersonalities ==
    << [name |-> "betain",     system_prompt |-> "betain_prompt"],
       [name |-> "alpain",     system_prompt |-> "alpain_prompt"],
       [name |-> "clementine", system_prompt |-> "clementine_prompt"] >>

\* personality ids a client sends: the default one, another one, and one that is
\* never a row
PersonalityIds == {1, 2, 4}

Idle == [pc |-> "idle"]

----------------------------------------------------------------------------
(* database.init_db, the seeding part *)

\* the three rows are inserted at every start, under the next serial ids
InitDbSeed_NoCheck(table) ==
    LET n == Cardinality(DOMAIN table)
    IN  [i \in 1..(n + Len(SeedPersonalities)) |->
            IF i <= n THEN table[i]
            ELSE [id |-> i,
                  name |-> SeedPersonalities[i - n].name,
                  system_prompt |-> SeedPersonalities[i - n].system_prompt]]

\* lines 144-148 and 336-358: nothing is done when the table has a row
InitDbSeed(table) ==
    IF Cardinality(DOMAIN table) > 0
    THEN table
    ELSE [i \in 1..Len(SeedPersonalities) |->
            [id |-> i,
             name |-> SeedPersonalities[i].name,
             system_prompt |-> SeedPersonalities[i].system_prompt]]

----------------------------------------------------------------------------
(* main.get_system_prompt *)

PersonalityByName(table, name) ==
    {i \in DOMAIN table : table[i].name = name}

\* get_system_prompt looking at the personality before the mode
GetSystemPrompt_PersonalityFirst(session_id, configs, table) ==
    IF /\ session_id \in DOMAIN configs
       /\ configs[session_id].personality_id # NoPersonality
       /\ configs[session_id].personality_id \in DOMAIN table
    THEN table[configs[session_id].personality_id].system_prompt
    ELSE IF session_id \in DOMAIN configs /\ configs[session_id].mode = "roadmap"
    THEN ROADMAP_SYSTEM_PROMPT
    ELSE IF PersonalityByName(table, DEFAULT_PERSONALITY_NAME) # {}
    THEN table[CHOOSE i \in PersonalityByName(table, DEFAULT_PERSONALITY_NAME) : TRUE].system_prompt
    ELSE FALLBACK_PROMPT

\* get_system_prompt giving up when the bound personality has no row
GetSystemPrompt_NoDefaultForMissingRow(session_id, configs, table) ==
    IF session_id \in DOMAIN configs /\ configs[session_id].mode = "roadmap"
    THEN ROADMAP_SYSTEM_PROMPT
    ELSE IF /\ session_id \in DOMAIN configs
            /\ configs[session_id].personality_id # NoPersonality
    THEN IF configs[session_id].personality_id \in DOMAIN table
         THEN table[configs[session_id].personality_id].system_prompt
         ELSE FALLBACK_PROMPT
    ELSE IF PersonalityByName(table, DEFAULT_PERSONALITY_NAME) # {}
    THEN table[CHOOSE i \in PersonalityByName(table, DEFAULT_PERSONALITY_NAME) : TRUE].system_prompt
    ELSE FALLBACK_PROMPT

\* get_system_prompt never looking at the session's personality
GetSystemPrompt_DefaultOnly(session_id, configs, table) ==
    IF session_id \in DOMAIN configs /\ configs[session_id].mode = "roadmap"
    THEN ROADMAP_SYSTEM_PROMPT
    ELSE IF PersonalityByName(table, DEFAULT_PERSONALITY_NAME) # {}
    THEN table[CHOOSE i \in PersonalityByName(table, DEFAULT_PERSONALITY_NAME) : TRUE].system_prompt
    ELSE FALLBACK_PROMPT

GetSystemPrompt(session_id, configs, table) ==
    IF session_id \in DOMAIN configs /\ configs[session_id].mode = "roadmap"
    THEN ROADMAP_SYSTEM_PROMPT
    ELSE IF /\ session_id \in DOMAIN configs
            /\ configs[session_id].personality_id # NoPersonality
            /\ configs[session_id].personality_id \in DOMAIN table
    THEN table[configs[session_id].personality_id].system_prompt
    ELSE IF PersonalityByName(table, DEFAULT_PERSONALITY_NAME) # {}
    THEN table[CHOOSE i \in PersonalityByName(table, DEFAULT_PERSONALITY_NAME) : TRUE].system_prompt
    ELSE FALLBACK_PROMPT

----------------------------------------------------------------------------
(* main.select_personality *)

\* the create-or-update leaving the mode of an existing row as it is
SelectUpsert_KeepMode(configs, session_id, personality_id, user_uuid) ==
    IF session_id \notin DOMAIN configs
    THEN [s \in DOMAIN configs \cup {session_id} |->
            IF s = session_id
            THEN [user_id |-> user_uuid,
                  personality_id |-> personality_id,
                  mode |-> "chat"]
            ELSE configs[s]]
    ELSE [configs EXCEPT ![session_id] =
            [user_id |-> IF user_uuid # None THEN user_uuid ELSE @.user_id,
             personality_id |-> personality_id,
             mode |-> @.mode]]

\* lines 447-462: the session row after the create-or-update
SelectUpsert(configs, session_id, personality_id, user_uuid) ==
    IF session_id \notin DOMAIN configs
    THEN [s \in DOMAIN configs \cup {session_id} |->
            IF s = session_id
            THEN [user_id |-> user_uuid,
                  personality_id |-> personality_id,
                  mode |-> "chat"]
            ELSE configs[s]]
    ELSE [configs EXCEPT ![session_id] =
            [user_id |-> IF user_uuid # None THEN user_uuid ELSE @.user_id,
             personality_id |-> personality_id,
             mode |-> "chat"]]

\* select_personality writing the session row before it looks the personality up
SelectPersonalityOutcome_WriteFirst(configs, table, session_id, personality_id, user_id, commit_ok) ==
    IF personality_id \notin DOMAIN table
    THEN [status |-> 404,
          configs |-> SelectUpsert(configs, session_id, personality_id, None)]
    ELSE IF user_id # None /\ UUIDOf(user_id) = ValueError
    THEN [status |-> 400, configs |-> configs]
    ELSE IF ~commit_ok
    THEN [status |-> 500, configs |-> configs]
    ELSE [status |-> 200,
          configs |-> SelectUpsert(configs, session_id, personality_id,
                                   IF user_id # None THEN UUIDOf(user_id) ELSE None)]

\* a user_id that is no UUID is ignored, as the chat turn does
SelectPersonalityOutcome_IgnoreBadUserId(configs, table, session_id, personality_id, user_id, commit_ok) ==
    IF personality_id \notin DOMAIN table
    THEN [status |-> 404, configs |-> configs]
    ELSE IF ~commit_ok
    THEN [status |-> 500, configs |-> configs]
    ELSE [status |-> 200,
          configs |-> SelectUpsert(configs, session_id, personality_id,
                                   IF user_id # None /\ UUIDOf(user_id) # ValueError
                                   THEN UUIDOf(user_id) ELSE None)]

\* the status handed to the caller and the table after the handler
SelectPersonalityOutcome(configs, table, session_id, personality_id, user_id, commit_ok) ==
    IF personality_id \notin DOMAIN table
    THEN [status |-> 404, configs |-> configs]
    ELSE IF user_id # None /\ UUIDOf(user_id) = ValueError
    THEN [status |-> 400, configs |-> configs]
    ELSE IF ~commit_ok
    THEN [status |-> 500, configs |-> configs]
    ELSE [status |-> 200,
          configs |-> SelectUpsert(configs, session_id, personality_id,
                                   IF user_id # None THEN UUIDOf(user_id) ELSE None)]

\* the mode of a session, "absent" when it has no row
ModeOf(configs, session_id) ==
    IF session_id \in DOMAIN configs THEN configs[session_id].mode ELSE "absent"

\* a thread-pool handler changed the row of the session of the turn in flight
\* after the turn read its system prompt and before it sent it
Disturb(t, session_id) ==
    IF t.pc \in {"history", "save_user", "invoke"} /\ t.session_id = session_id
    THEN [t EXCEPT !.stale = TRUE]
    ELSE t

SelectPersonality(session_id, personality_id, user_id, commit_ok) ==
    LET out == SelectPersonalityOutcome(session_configs, personalities, session_id,
                                        personality_id, user_id, commit_ok)
    IN  /\ started
        /\ session_configs' = out.configs
        /\ turn' = IF out.status = 200 THEN Disturb(turn, session_id) ELSE turn
        /\ selected' = IF out.status = 200
                       THEN [selected EXCEPT ![session_id] = personality_id]
                       ELSE selected
        /\ last' = IF out.status = 200
                   THEN [op |-> "select", status |-> 200,
                         personality_id |-> personality_id, session_id |-> session_id,
                         user_id |-> user_id,
                         prev_mode |-> ModeOf(session_configs, session_id)]
                   ELSE [op |-> "select", status |-> out.status,
                         personality_id |-> personality_id, user_id |-> user_id]
        /\ UNCHANGED <<active_connections, connections, started, personalities, conversation_messages,
                       conversation_history>>

----------------------------------------------------------------------------
(* main.get_user_sessions: GET /sessions/user/{user_id} *)

GetUserSessions(user_id) ==
    /\ started
    /\ last' = IF UUIDOf(user_id) = ValueError
               THEN [op |-> "sessions", status |-> 400, user_id |-> user_id]
               ELSE [op |-> "sessions", status |-> 200, user_id |-> user_id,
                     sessions |-> {s \in DOMAIN session_configs :
                                     session_configs[s].user_id = UUIDOf(user_id)}]
    /\ UNCHANGED <<started, personalities, session_configs, conversation_messages,
                   conversation_history, active_connections, connections, turn,
                   selected>>

----------------------------------------------------------------------------
(* main.start_roadmap *)

\* lines 493-506
RoadmapUpsert(configs, session_id, user_uuid) ==
    IF session_id \notin DOMAIN configs
    THEN [s \in DOMAIN configs \cup {session_id} |->
            IF s = session_id
            THEN [user_id |-> user_uuid,
                  personality_id |-> NoPersonality,
                  mode |-> "roadmap"]
            ELSE configs[s]]
    ELSE [configs EXCEPT ![session_id] =
            [user_id |-> IF user_uuid # None THEN user_uuid ELSE @.user_id,
             personality_id |-> @.personality_id,
             mode |-> "roadmap"]]

\* del conversation_history[session_id], when the key is there
\* every session's entry is dropped
DropHistory_All(history, session_id) == << >>

\* del conversation_history[session_id], when the entry is there
DropHistory(history, session_id) ==
    [s \in DOMAIN history \ {session_id} |-> history[s]]

StartRoadmapOutcome(configs, history, session_id, user_id, commit_ok) ==
    IF user_id # None /\ UUIDOf(user_id) = ValueError
    THEN [status |-> 400, configs |-> configs, history |-> history]
    ELSE IF ~commit_ok
    THEN [status |-> 500, configs |-> configs, history |-> history]
    ELSE [status |-> 200,
          configs |-> RoadmapUpsert(configs, session_id,
                                    IF user_id # None THEN UUIDOf(user_id) ELSE None),
          history |-> DropHistory(history, session_id)]

StartRoadmap(session_id, user_id, commit_ok) ==
    LET out == StartRoadmapOutcome(session_configs, conversation_history,
                                   session_id, user_id, commit_ok)
    IN  /\ started
        /\ session_configs' = out.configs
        /\ conversation_history' = out.history
        /\ turn' = IF out.status = 200 THEN Disturb(turn, session_id) ELSE turn
        /\ selected' = IF out.status = 200
                       THEN [selected EXCEPT ![session_id] = NoPersonality]
                       ELSE selected
        /\ last' = IF out.status = 200
                   THEN [op |-> "roadmap", status |-> 200, session_id |-> session_id,
                         user_id |-> user_id]
                   ELSE [op |-> "roadmap", status |-> out.status, user_id |-> user_id]
        /\ UNCHANGED <<active_connections, connections, started, personalities, conversation_messages>>

----------------------------------------------------------------------------
(* main.generate_embedding and main.save_conversation_message *)

\* Python's None for an embedding: an empty list is turned into None as well
NoEmbedding == <<>>

\* answer: what the Embedding Provider call did, [ok |-> FALSE] when it raised
GenerateEmbedding(answer) ==
    IF answer.ok /\ answer.embedding # <<>> THEN answer.embedding ELSE NoEmbedding

\* a message without an embedding is not inserted
SaveConversationMessage_SkipWithoutEmbedding(log, session_id, role, content, user_id, answer, commit_ok) ==
    IF ~commit_ok \/ GenerateEmbedding(answer) = NoEmbedding
    THEN log
    ELSE Append(log,
           [session_id |-> session_id,
            user_id |-> IF user_id # None /\ UUIDOf(user_id) # ValueError
                        THEN UUIDOf(user_id) ELSE None,
            role |-> role,
            content |-> content,
            embedding |-> GenerateEmbedding(answer)])

\* the Message Log after save_conversation_message; a failed commit is rolled back
SaveConversationMessage(log, session_id, role, content, user_id, answer, commit_ok) ==
    IF ~commit_ok
    THEN log
    ELSE Append(log,
           [session_id |-> session_id,
            user_id |-> IF user_id # None /\ UUIDOf(user_id) # ValueError
                        THEN UUIDOf(user_id) ELSE None,
            role |-> role,
            content |-> content,
            embedding |-> GenerateEmbedding(answer)])

\* the exception of the commit, handed on to the turn
SaveRaises_Propagate(commit_ok) == ~commit_ok

\* lines 152-155: an exception inside save_conversation_message is caught, rolled
\* back and answered with None, so the call itself never raises
SaveRaises(commit_ok) == FALSE

----------------------------------------------------------------------------
(* main.chat: POST /chat *)

\* messages kept per session
HISTORY_LIMIT == 50

\* a session id no request, row or cache entry has carried: what uuid4 returns
Used(session_id) ==
    \/ session_id \in DOMAIN session_configs
    \/ session_id \in DOMAIN conversation_history
    \/ session_id \in DOMAIN active_connections
    \/ \E w \in DOMAIN connections : connections[w].session_id = session_id
    \/ \E i \in 1..Len(conversation_messages) :
          conversation_messages[i].session_id = session_id

\* lines 536-553: [ok |-> the commit did not raise, configs |-> the table after]
ChatConfigOutcome(configs, session_id, user_id, commit_ok) ==
    IF user_id = None \/ UUIDOf(user_id) = ValueError
    THEN [ok |-> TRUE, configs |-> configs]
    ELSE IF session_id \notin DOMAIN configs
    THEN IF commit_ok
         THEN [ok |-> TRUE,
               configs |-> [s \in DOMAIN configs \cup {session_id} |->
                              IF s = session_id
                              THEN [user_id |-> UUIDOf(user_id),
                                    personality_id |-> NoPersonality,
                                    mode |-> "chat"]
                              ELSE configs[s]]]
         ELSE [ok |-> FALSE, configs |-> configs]
    ELSE IF configs[session_id].user_id = None
    THEN IF commit_ok
         THEN [ok |-> TRUE,
               configs |-> [configs EXCEPT ![session_id].user_id = UUIDOf(user_id)]]
         ELSE [ok |-> FALSE, configs |-> configs]
    ELSE [ok |-> TRUE, configs |-> configs]

\* a history entry that is kept: it has a role and a content
WellFormed(msg) == {"role", "content"} \subseteq DOMAIN msg

RECURSIVE KeepWellFormed(_)
KeepWellFormed(msgs) ==
    IF msgs = <<>> THEN <<>>
    ELSE IF WellFormed(Head(msgs))
    THEN <<[role |-> Head(msgs).role, content |-> Head(msgs).content]>>
            \o KeepWellFormed(Tail(msgs))
    ELSE KeepWellFormed(Tail(msgs))

\* the cached transcript is taken first, the caller's history only without it
AssembleMessages_CacheFirst(history, cache, session_id, message) ==
    LET base == IF session_id \in DOMAIN cache
                THEN KeepWellFormed(cache[session_id])
                ELSE KeepWellFormed(history)
    IN  Append(base, [role |-> "user", content |-> message])

\* the caller's history is put after what the cache holds for the session
AssembleMessages_AfterCache(history, cache, session_id, message) ==
    LET old == IF session_id \in DOMAIN cache
               THEN KeepWellFormed(cache[session_id])
               ELSE <<>>
    IN  Append(old \o KeepWellFormed(history), [role |-> "user", content |-> message])

\* lines 558-580: the transcript of the turn
AssembleMessages(history, cache, session_id, message) ==
    LET base == IF history # <<>>
                THEN KeepWellFormed(history)
                ELSE IF session_id \in DOMAIN cache
                THEN KeepWellFormed(cache[session_id])
                ELSE <<>>
    IN  Append(base, [role |-> "user", content |-> message])

\* the list is stored as it is
LastN_KeepAll(msgs, n) == msgs

\* messages[-50:]
LastN(msgs, n) ==
    IF Len(msgs) > n THEN SubSeq(msgs, Len(msgs) - n + 1, Len(msgs)) ELSE msgs

\* the turn's transcript is added to what the cache holds
StoreHistory_Merge(cache, session_id, messages, assistant_message) ==
    LET all == Append(messages, [role |-> "assistant", content |-> assistant_message])
        old == IF session_id \in DOMAIN cache THEN cache[session_id] ELSE <<>>
    IN  [s \in DOMAIN cache \cup {session_id} |->
            IF s = session_id THEN LastN(old \o all, HISTORY_LIMIT) ELSE cache[s]]

\* lines 621-630: the cache after the turn
StoreHistory(cache, session_id, messages, assistant_message) ==
    LET all == Append(messages, [role |-> "assistant", content |-> assistant_message])
    IN  [s \in DOMAIN cache \cup {session_id} |->
            IF s = session_id THEN LastN(all, HISTORY_LIMIT) ELSE cache[s]]

ChatFail(session_id, step) ==
    /\ turn' = Idle
    /\ last' = [op |-> "chat", step |-> step, session_id |-> session_id, status |-> 500]

\* lines 530-553: the request arrives; session id and session row
ChatBegin(session_id_in, user_id, message, history, commit_ok) ==
    /\ started
    /\ turn = Idle
    /\ Len(conversation_messages) + 2 <= MaxLog
    /\ \E session_id \in SessionIds :
          /\ IF session_id_in # None
             THEN session_id = session_id_in
             ELSE ~Used(session_id)
          /\ LET out == ChatConfigOutcome(session_configs, session_id, user_id, commit_ok)
             IN  /\ session_configs' = out.configs
                 /\ IF out.ok
                    THEN /\ turn' = [pc |-> "prompt", session_id |-> session_id,
                                     user_id |-> user_id, message |-> message,
                                     history |-> history, system_prompt |-> None,
                                     messages |-> <<>>, assistant_message |-> None,
                                     stale |-> FALSE]
                         /\ last' = [op |-> "chat", step |-> "begin",
                                     session_id |-> session_id, status |-> 0]
                    ELSE ChatFail(session_id, "begin")
    /\ UNCHANGED <<active_connections, connections, started, personalities, conversation_messages,
                   conversation_history, selected>>

\* line 556
ChatPrompt ==
    /\ turn.pc = "prompt"
    /\ turn' = [turn EXCEPT !.pc = "history",
                            !.system_prompt =
                                GetSystemPrompt(turn.session_id, session_configs, personalities)]
    /\ last' = [op |-> "chat", step |-> "prompt", session_id |-> turn.session_id,
                status |-> 0]
    /\ UNCHANGED <<active_connections, connections, started, personalities, session_configs, conversation_messages,
                   conversation_history, selected>>

\* the transcript is assembled and the provider called next, the user turn not saved
ChatHistory_SkipSaveUser ==
    /\ turn.pc = "history"
    /\ turn' = [turn EXCEPT !.pc = "invoke",
                            !.messages = AssembleMessages(turn.history, conversation_history,
                                                          turn.session_id, turn.message)]
    /\ last' = [op |-> "chat", step |-> "history", session_id |-> turn.session_id,
                status |-> 0]
    /\ UNCHANGED <<active_connections, connections, started, personalities, session_configs, conversation_messages,
                   conversation_history, selected>>

\* lines 558-580
ChatHistory ==
    /\ turn.pc = "history"
    /\ turn' = [turn EXCEPT !.pc = "save_user",
                            !.messages = AssembleMessages(turn.history, conversation_history,
                                                          turn.session_id, turn.message)]
    /\ last' = [op |-> "chat", step |-> "history", session_id |-> turn.session_id,
                status |-> 0]
    /\ UNCHANGED <<active_connections, connections, started, personalities, session_configs, conversation_messages,
                   conversation_history, selected>>

\* lines 582-589
ChatSaveUser(answer, commit_ok) ==
    /\ turn.pc = "save_user"
    /\ conversation_messages' =
          SaveConversationMessage(conversation_messages, turn.session_id, "user",
                                  turn.message, turn.user_id, answer, commit_ok)
    /\ turn' = [turn EXCEPT !.pc = "invoke"]
    /\ last' = [op |-> "chat", step |-> "save_user", session_id |-> turn.session_id,
                status |-> 0]
    /\ UNCHANGED <<active_connections, connections, started, personalities, session_configs, conversation_history, selected>>

\* lines 591-610: the Completion Provider is called with the prompt and the transcript
ChatInvoke(answer) ==
    /\ turn.pc = "invoke"
    /\ IF answer.ok
       THEN /\ turn' = [turn EXCEPT !.pc = "save_assistant",
                                    !.assistant_message = answer.text]
            /\ last' = [op |-> "chat", step |-> "invoke", session_id |-> turn.session_id,
                        status |-> 0, stale |-> turn.stale,
                        sent |-> [system |-> turn.system_prompt,
                                  messages |-> turn.messages]]
       ELSE /\ turn' = Idle
            /\ last' = [op |-> "chat", step |-> "invoke", session_id |-> turn.session_id,
                        status |-> 500, stale |-> turn.stale,
                        sent |-> [system |-> turn.system_prompt,
                                  messages |-> turn.messages]]
    /\ UNCHANGED <<active_connections, connections, started, personalities, session_configs, conversation_messages,
                   conversation_history, selected>>

\* lines 612-619
ChatSaveAssistant(answer, commit_ok) ==
    /\ turn.pc = "save_assistant"
    /\ conversation_messages' =
          SaveConversationMessage(conversation_messages, turn.session_id, "assistant",
                                  turn.assistant_message, turn.user_id, answer, commit_ok)
    /\ turn' = [turn EXCEPT !.pc = "store"]
    /\ last' = [op |-> "chat", step |-> "save_assistant", session_id |-> turn.session_id,
                status |-> 0]
    /\ UNCHANGED <<active_connections, connections, started, personalities, session_configs, conversation_history, selected>>

\* lines 621-636: the cache is written and the response returned
ChatStore ==
    /\ turn.pc = "store"
    /\ conversation_history' = StoreHistory(conversation_history, turn.session_id,
                                            turn.messages, turn.assistant_message)
    /\ turn' = Idle
    /\ last' = [op |-> "chat", step |-> "store", session_id |-> turn.session_id,
                status |-> 200, response |-> turn.assistant_message]
    /\ UNCHANGED <<active_connections, connections, started, personalities, session_configs, conversation_messages, selected>>

----------------------------------------------------------------------------
(* main.chat as one step: the whole handler, when nothing runs in between *)

\* what the Completion Provider call and the parsing of its response give:
\* [ok |-> FALSE] when invoke_model raised or the response held no text
CompletionText(completion) == IF completion.ok THEN completion.text ELSE None

\* what the turn saw of its provider and storage calls
TurnFlags(emb_user, save_user_ok, completion, emb_assistant, save_assistant_ok) ==
    [emb_user |-> GenerateEmbedding(emb_user) # NoEmbedding,
     save_user |-> save_user_ok,
     completion |-> completion.ok,
     emb_assistant |-> GenerateEmbedding(emb_assistant) # NoEmbedding,
     save_assistant |-> save_assistant_ok]

\* the failure of the Completion Provider undoes the user's row
ChatOutcome_RollbackOnFailure(configs, table, log, cache, session_id, user_id, message, history, commit_ok, emb_user, save_user_ok, completion, emb_assistant, save_assistant_ok) ==
    LET cfg == ChatConfigOutcome(configs, session_id, user_id, commit_ok)
        system_prompt == GetSystemPrompt(session_id, cfg.configs, table)
        messages == AssembleMessages(history, cache, session_id, message)
        log1 == SaveConversationMessage(log, session_id, "user", message, user_id,
                                        emb_user, save_user_ok)
        log2 == SaveConversationMessage(log1, session_id, "assistant", completion.text,
                                        user_id, emb_assistant, save_assistant_ok)
    IN  IF ~cfg.ok
        THEN [status |-> 500, invoked |-> FALSE, configs |-> configs, log |-> log,
              cache |-> cache]
        ELSE IF SaveRaises(save_user_ok)
        THEN [status |-> 500, invoked |-> FALSE, configs |-> cfg.configs, log |-> log,
              cache |-> cache]
        ELSE IF ~completion.ok
        THEN [status |-> 500, invoked |-> TRUE, system |-> system_prompt,
              messages |-> messages, configs |-> cfg.configs, log |-> log,
              cache |-> cache]
        ELSE IF SaveRaises(save_assistant_ok)
        THEN [status |-> 500, invoked |-> TRUE, system |-> system_prompt,
              messages |-> messages, configs |-> cfg.configs, log |-> log1,
              cache |-> cache]
        ELSE [status |-> 200, invoked |-> TRUE, system |-> system_prompt,
              messages |-> messages, configs |-> cfg.configs, log |-> log2,
              cache |-> StoreHistory(cache, session_id, messages, completion.text)]

\* the assistant's turn is answered and cached, and not saved
ChatOutcome_NoAssistantRow(configs, table, log, cache, session_id, user_id, message, history, commit_ok, emb_user, save_user_ok, completion, emb_assistant, save_assistant_ok) ==
    LET cfg == ChatConfigOutcome(configs, session_id, user_id, commit_ok)
        system_prompt == GetSystemPrompt(session_id, cfg.configs, table)
        messages == AssembleMessages(history, cache, session_id, message)
        log1 == SaveConversationMessage(log, session_id, "user", message, user_id,
                                        emb_user, save_user_ok)
        log2 == SaveConversationMessage(log1, session_id, "assistant", completion.text,
                                        user_id, emb_assistant, save_assistant_ok)
    IN  IF ~cfg.ok
        THEN [status |-> 500, invoked |-> FALSE, configs |-> configs, log |-> log,
              cache |-> cache]
        ELSE IF SaveRaises(save_user_ok)
        THEN [status |-> 500, invoked |-> FALSE, configs |-> cfg.configs, log |-> log,
              cache |-> cache]
        ELSE IF ~completion.ok
        THEN [status |-> 500, invoked |-> TRUE, system |-> system_prompt,
              messages |-> messages, configs |-> cfg.configs, log |-> log1,
              cache |-> cache]
        ELSE IF SaveRaises(save_assistant_ok)
        THEN [status |-> 500, invoked |-> TRUE, system |-> system_prompt,
              messages |-> messages, configs |-> cfg.configs, log |-> log1,
              cache |-> cache]
        ELSE [status |-> 200, invoked |-> TRUE, system |-> system_prompt,
              messages |-> messages, configs |-> cfg.configs, log |-> log1,
              cache |-> StoreHistory(cache, session_id, messages, completion.text)]

\* what one call of chat does to the tables and the cache, and what it hands to
\* the Completion Provider and to its caller
\* the transcript with the user turn is cached before the provider is called
ChatOutcome_CacheBeforeInvoke(configs, table, log, cache, session_id, user_id, message, history, commit_ok, emb_user, save_user_ok, completion, emb_assistant, save_assistant_ok) ==
    LET cfg == ChatConfigOutcome(configs, session_id, user_id, commit_ok)
        system_prompt == GetSystemPrompt(session_id, cfg.configs, table)
        messages == AssembleMessages(history, cache, session_id, message)
        log1 == SaveConversationMessage(log, session_id, "user", message, user_id,
                                        emb_user, save_user_ok)
        log2 == SaveConversationMessage(log1, session_id, "assistant", completion.text,
                                        user_id, emb_assistant, save_assistant_ok)
    IN  IF ~cfg.ok
        THEN [status |-> 500, invoked |-> FALSE, configs |-> configs, log |-> log,
              cache |-> cache]
        ELSE IF SaveRaises(save_user_ok)
        THEN [status |-> 500, invoked |-> FALSE, configs |-> cfg.configs, log |-> log,
              cache |-> cache]
        ELSE IF ~completion.ok
        THEN [status |-> 500, invoked |-> TRUE, system |-> system_prompt,
              messages |-> messages, configs |-> cfg.configs, log |-> log1,
              cache |-> [s \in DOMAIN cache \cup {session_id} |->
                           IF s = session_id THEN LastN(messages, HISTORY_LIMIT)
                           ELSE cache[s]]]
        ELSE IF SaveRaises(save_assistant_ok)
        THEN [status |-> 500, invoked |-> TRUE, system |-> system_prompt,
              messages |-> messages, configs |-> cfg.configs, log |-> log1,
              cache |-> cache]
        ELSE [status |-> 200, invoked |-> TRUE, system |-> system_prompt,
              messages |-> messages, configs |-> cfg.configs, log |-> log2,
              cache |-> StoreHistory(cache, session_id, messages, completion.text)]

\* lines 529-639: what the handler leaves and hands to its caller
ChatOutcome(configs, table, log, cache, session_id, user_id, message, history, commit_ok, emb_user, save_user_ok, completion, emb_assistant, save_assistant_ok) ==
    LET cfg == ChatConfigOutcome(configs, session_id, user_id, commit_ok)
        system_prompt == GetSystemPrompt(session_id, cfg.configs, table)
        messages == AssembleMessages(history, cache, session_id, message)
        log1 == SaveConversationMessage(log, session_id, "user", message, user_id,
                                        emb_user, save_user_ok)
        log2 == SaveConversationMessage(log1, session_id, "assistant", completion.text,
                                        user_id, emb_assistant, save_assistant_ok)
    IN  IF ~cfg.ok
        THEN [status |-> 500, invoked |-> FALSE, configs |-> configs, log |-> log,
              cache |-> cache]
        ELSE IF SaveRaises(save_user_ok)
        THEN [status |-> 500, invoked |-> FALSE, configs |-> cfg.configs, log |-> log,
              cache |-> cache]
        ELSE IF ~completion.ok
        THEN [status |-> 500, invoked |-> TRUE, system |-> system_prompt,
              messages |-> messages, configs |-> cfg.configs, log |-> log1,
              cache |-> cache]
        ELSE IF SaveRaises(save_assistant_ok)
        THEN [status |-> 500, invoked |-> TRUE, system |-> system_prompt,
              messages |-> messages, configs |-> cfg.configs, log |-> log1,
              cache |-> cache]
        ELSE [status |-> 200, invoked |-> TRUE, system |-> system_prompt,
              messages |-> messages, configs |-> cfg.configs, log |-> log2,
              cache |-> StoreHistory(cache, session_id, messages, completion.text)]

\* the handler as one step, whatever room the Message Log has
ChatTurn(session_id_in, user_id, message, history, commit_ok, emb_user, save_user_ok, completion, emb_assistant, save_assistant_ok) ==
    /\ started
    /\ turn = Idle
    /\ \E session_id \in SessionIds :
          /\ IF session_id_in # None
             THEN session_id = session_id_in
             ELSE ~Used(session_id)
          /\ LET out == ChatOutcome(session_configs, personalities, conversation_messages,
                                    conversation_history, session_id, user_id, message,
                                    history, commit_ok, emb_user, save_user_ok,
                                    completion, emb_assistant, save_assistant_ok)
             IN  /\ session_configs' = out.configs
                 /\ conversation_messages' = out.log
                 /\ conversation_history' = out.cache
                 /\ last' = IF out.invoked
                            THEN [op |-> "chat", status |-> out.status,
                                  session_id |-> session_id,
                                  user_id |-> user_id,
                                  message |-> message,
                                  history |-> history,
                                  rows_before |-> Len(conversation_messages),
                                  flags |-> TurnFlags(emb_user, save_user_ok, completion,
                                                      emb_assistant, save_assistant_ok),
                                  sent |-> [system |-> out.system,
                                            messages |-> out.messages],
                                  response |-> IF out.status = 200
                                               THEN CompletionText(completion) ELSE None]
                            ELSE [op |-> "chat", status |-> out.status,
                                  flags |-> TurnFlags(emb_user, save_user_ok, completion,
                                                      emb_assistant, save_assistant_ok)]
    /\ UNCHANGED <<active_connections, connections, started, personalities, turn, selected>>

Chat(session_id_in, user_id, message, history, commit_ok, emb_user, save_user_ok, completion, emb_assistant, save_assistant_ok) ==
    /\ Len(conversation_messages) + 2 <= MaxLog
    /\ ChatTurn(session_id_in, user_id, message, history, commit_ok, emb_user,
                save_user_ok, completion, emb_assistant, save_assistant_ok)

----------------------------------------------------------------------------
(* main.websocket_chat: /ws/chat, one inbound frame as one step *)

ConnIds == {"w1", "w2"}

\* the frames the server sends
ErrorFrame == [type |-> "error"]

SessionFrame(session_id) == [type |-> "session", session_id |-> session_id]

MessageFrame(session_id, response) ==
    [type |-> "message", session_id |-> session_id, response |-> response]

\* line 708: active_connections[session_id] = websocket
Register(registry, session_id, conn) ==
    [s \in DOMAIN registry \cup {session_id} |->
        IF s = session_id THEN conn ELSE registry[s]]

\* the session frame goes out with every turn
SessionFrames_Always(session_id_in, session_id) == <<SessionFrame(session_id)>>

\* lines 698-705: the session frame goes out when the frame named no session
SessionFrames(session_id_in, session_id) ==
    IF session_id_in = None THEN <<SessionFrame(session_id)>> ELSE <<>>

\* lines 698-799: the turn of a frame that has a message
WsTurnOutcome(table, configs, log, cache, registry, conn, session_id_in, session_id, user_id, message, history, emb_user, save_user_ok, completion, emb_assistant, save_assistant_ok) ==
    LET system_prompt == GetSystemPrompt(session_id, configs, table)
        messages == AssembleMessages(history, cache, session_id, message)
        log1 == SaveConversationMessage(log, session_id, "user", message, user_id,
                                        emb_user, save_user_ok)
        log2 == SaveConversationMessage(log1, session_id, "assistant", completion.text,
                                        user_id, emb_assistant, save_assistant_ok)
        registered == Register(registry, session_id, conn)
        head == SessionFrames(session_id_in, session_id)
    IN  IF SaveRaises(save_user_ok)
        THEN [frames |-> head \o <<ErrorFrame>>, invoked |-> FALSE, began |-> TRUE,
              log |-> log, cache |-> cache, registry |-> registered,
              local |-> session_id]
        ELSE IF ~completion.ok
        THEN [frames |-> head \o <<ErrorFrame>>, invoked |-> TRUE, began |-> TRUE,
              system |-> system_prompt, messages |-> messages,
              log |-> log1, cache |-> cache, registry |-> registered,
              local |-> session_id]
        ELSE IF SaveRaises(save_assistant_ok)
        THEN [frames |-> head \o <<ErrorFrame>>, invoked |-> TRUE, began |-> TRUE,
              system |-> system_prompt, messages |-> messages,
              log |-> log1, cache |-> cache, registry |-> registered,
              local |-> session_id]
        ELSE [frames |-> head \o <<MessageFrame(session_id, completion.text)>>,
              invoked |-> TRUE, began |-> TRUE,
              system |-> system_prompt, messages |-> messages,
              log |-> log2,
              cache |-> StoreHistory(cache, session_id, messages, completion.text),
              registry |-> registered, local |-> session_id]

\* the id is taken and the connection registered first, the message tested after
WsFrameOutcome_RegisterFirst(table, configs, log, cache, registry, conn, local, valid_json, session_id_in, session_id, user_id, message, history, emb_user, save_user_ok, completion, emb_assistant, save_assistant_ok) ==
    IF ~valid_json
    THEN [frames |-> <<ErrorFrame>>, invoked |-> FALSE, began |-> FALSE,
          log |-> log, cache |-> cache, registry |-> registry, local |-> local]
    ELSE IF message = ""
    THEN [frames |-> SessionFrames(session_id_in, session_id) \o <<ErrorFrame>>,
          invoked |-> FALSE, began |-> FALSE, log |-> log, cache |-> cache,
          registry |-> Register(registry, session_id, conn), local |-> session_id]
    ELSE WsTurnOutcome(table, configs, log, cache, registry, conn, session_id_in,
                       session_id, user_id, message, history, emb_user, save_user_ok,
                       completion, emb_assistant, save_assistant_ok)

\* lines 686-810: what one inbound frame does.  local is the coroutine's
\* session_id variable, session_id the id of the frame or the one uuid4 gives
WsFrameOutcome(table, configs, log, cache, registry, conn, local, valid_json, session_id_in, session_id, user_id, message, history, emb_user, save_user_ok, completion, emb_assistant, save_assistant_ok) ==
    IF ~valid_json \/ message = ""
    THEN [frames |-> <<ErrorFrame>>, invoked |-> FALSE, began |-> FALSE,
          log |-> log, cache |-> cache, registry |-> registry, local |-> local]
    ELSE WsTurnOutcome(table, configs, log, cache, registry, conn, session_id_in,
                       session_id, user_id, message, history, emb_user, save_user_ok,
                       completion, emb_assistant, save_assistant_ok)

\* line 674-679: a client connects
WsConnect(conn) ==
    /\ started
    /\ conn \notin DOMAIN connections
    /\ connections' = [w \in DOMAIN connections \cup {conn} |->
                          IF w = conn THEN [session_id |-> None] ELSE connections[w]]
    /\ last' = [op |-> "ws_connect", status |-> 0, conn |-> conn]
    /\ UNCHANGED <<started, personalities, session_configs, conversation_messages,
                   conversation_history, active_connections, turn, selected>>

\* the connection is closed after an error frame
WsFrame_CloseOnError(conn, valid_json, session_id_in, user_id, message, history, emb_user, save_user_ok, completion, emb_assistant, save_assistant_ok) ==
    /\ started
    /\ turn = Idle
    /\ conn \in DOMAIN connections
    /\ \E session_id \in SessionIds :
          /\ IF session_id_in # None
             THEN session_id = session_id_in
             ELSE ~Used(session_id) \/ ~valid_json \/ message = ""
          /\ LET out == WsFrameOutcome(personalities, session_configs,
                                       conversation_messages, conversation_history,
                                       active_connections, conn,
                                       connections[conn].session_id, valid_json,
                                       session_id_in, session_id, user_id, message,
                                       history, emb_user, save_user_ok, completion,
                                       emb_assistant, save_assistant_ok)
             IN  /\ conversation_messages' = out.log
                 /\ conversation_history' = out.cache
                 /\ active_connections' = out.registry
                 /\ connections' =
                       IF out.frames[Len(out.frames)] = ErrorFrame
                       THEN [w \in DOMAIN connections \ {conn} |-> connections[w]]
                       ELSE [connections EXCEPT ![conn].session_id = out.local]
                 /\ last' = IF out.invoked
                            THEN [op |-> "ws", status |-> 0, conn |-> conn,
                                  valid_json |-> valid_json, message |-> message,
                                  frames |-> out.frames,
                                  session_id_in |-> session_id_in,
                                  session_id |-> session_id,
                                  user_id |-> user_id,
                                  history |-> history,
                                  rows_before |-> Len(conversation_messages),
                                  flags |-> TurnFlags(emb_user, save_user_ok, completion,
                                                      emb_assistant, save_assistant_ok),
                                  sent |-> [system |-> out.system,
                                            messages |-> out.messages],
                                  response |-> IF out.frames[Len(out.frames)].type = "message"
                                               THEN CompletionText(completion) ELSE None]
                            ELSE IF out.began
                            THEN [op |-> "ws", status |-> 0, conn |-> conn,
                                  valid_json |-> valid_json, message |-> message,
                                  frames |-> out.frames,
                                  session_id_in |-> session_id_in,
                                  session_id |-> session_id,
                                  flags |-> TurnFlags(emb_user, save_user_ok, completion,
                                                      emb_assistant, save_assistant_ok)]
                            ELSE [op |-> "ws", status |-> 0, conn |-> conn,
                                  valid_json |-> valid_json, message |-> message,
                                  frames |-> out.frames]
    /\ UNCHANGED <<started, personalities, session_configs, turn, selected>>

\* lines 682-810: one inbound frame, received and answered
WsFrame(conn, valid_json, session_id_in, user_id, message, history, emb_user, save_user_ok, completion, emb_assistant, save_assistant_ok) ==
    /\ started
    /\ turn = Idle
    /\ conn \in DOMAIN connections
    /\ \E session_id \in SessionIds :
          /\ IF session_id_in # None
             THEN session_id = session_id_in
             ELSE ~Used(session_id) \/ ~valid_json \/ message = ""
          /\ LET out == WsFrameOutcome(personalities, session_configs,
                                       conversation_messages, conversation_history,
                                       active_connections, conn,
                                       connections[conn].session_id, valid_json,
                                       session_id_in, session_id, user_id, message,
                                       history, emb_user, save_user_ok, completion,
                                       emb_assistant, save_assistant_ok)
             IN  /\ conversation_messages' = out.log
                 /\ conversation_history' = out.cache
                 /\ active_connections' = out.registry
                 /\ connections' = [connections EXCEPT ![conn].session_id = out.local]
                 /\ last' = IF out.invoked
                            THEN [op |-> "ws", status |-> 0, conn |-> conn,
                                  valid_json |-> valid_json, message |-> message,
                                  frames |-> out.frames,
                                  session_id_in |-> session_id_in,
                                  session_id |-> session_id,
                                  user_id |-> user_id,
                                  history |-> history,
                                  rows_before |-> Len(conversation_messages),
                                  flags |-> TurnFlags(emb_user, save_user_ok, completion,
                                                      emb_assistant, save_assistant_ok),
                                  sent |-> [system |-> out.system,
                                            messages |-> out.messages],
                                  response |-> IF out.frames[Len(out.frames)].type = "message"
                                               THEN CompletionText(completion) ELSE None]
                            ELSE IF out.began
                            THEN [op |-> "ws", status |-> 0, conn |-> conn,
                                  valid_json |-> valid_json, message |-> message,
                                  frames |-> out.frames,
                                  session_id_in |-> session_id_in,
                                  session_id |-> session_id,
                                  flags |-> TurnFlags(emb_user, save_user_ok, completion,
                                                      emb_assistant, save_assistant_ok)]
                            ELSE [op |-> "ws", status |-> 0, conn |-> conn,
                                  valid_json |-> valid_json, message |-> message,
                                  frames |-> out.frames]
    /\ UNCHANGED <<started, personalities, session_configs, turn, selected>>

\* lines 812-814 and 825-826: receive_text raises WebSocketDisconnect
WsDisconnect(conn) ==
    /\ started
    /\ conn \in DOMAIN connections
    /\ LET local == connections[conn].session_id
       IN  active_connections' =
              IF local # None /\ local \in DOMAIN active_connections
              THEN [s \in DOMAIN active_connections \ {local} |-> active_connections[s]]
              ELSE active_connections
    /\ connections' = [w \in DOMAIN connections \ {conn} |-> connections[w]]
    /\ last' = [op |-> "ws_disconnect", status |-> 0, conn |-> conn]
    /\ UNCHANGED <<started, personalities, session_configs, conversation_messages,
                   conversation_history, turn, selected>>

----------------------------------------------------------------------------
(* main.clear_history: POST /chat/clear, on the event loop *)

\* clearing a session also deletes its rows of the Message Log
ClearHistory_DeletesRows(session_id) ==
    /\ started
    /\ turn = Idle
    /\ conversation_history' = DropHistory(conversation_history, session_id)
    /\ conversation_messages' =
          SelectSeq(conversation_messages, LAMBDA row : row.session_id # session_id)
    /\ last' = [op |-> "clear", status |-> 200, session_id |-> session_id]
    /\ UNCHANGED <<active_connections, connections, started, personalities, session_configs,
                   turn, selected>>

ClearHistory(session_id) ==
    /\ started
    /\ turn = Idle
    /\ conversation_history' = DropHistory(conversation_history, session_id)
    /\ last' = [op |-> "clear", status |-> 200, session_id |-> session_id,
                found |-> session_id \in DOMAIN conversation_history]
    /\ UNCHANGED <<active_connections, connections, started, personalities, session_configs, conversation_messages,
                   turn, selected>>

----------------------------------------------------------------------------
(* main.startup_event: the process starts, init_db runs, its failure is swallowed *)

Startup(init_ok) ==
    /\ turn = Idle
    /\ started' = TRUE
    /\ personalities' = IF init_ok THEN InitDbSeed(personalities) ELSE personalities
    /\ conversation_history' = << >>
    /\ active_connections' = << >>
    /\ connections' = << >>
    /\ last' = [op |-> "startup", status |-> 0]
    /\ UNCHANGED <<session_configs, conversation_messages, turn, selected>>

----------------------------------------------------------------------------
(* The service: registry handlers and chat turns *)

UserIdInputs == UserIdStrings \cup {None}

EmbeddingOk == [ok |-> TRUE, embedding |-> <<1, 0>>]

EmbeddingAnswers == {[ok |-> FALSE], EmbeddingOk}

CompletionAnswers == {[ok |-> FALSE], [ok |-> TRUE, text |-> "reply"]}

Init ==
    /\ started = FALSE
    /\ personalities = << >>
    /\ session_configs = << >>
    /\ conversation_messages = << >>
    /\ conversation_history = << >>
    /\ active_connections = << >>
    /\ connections = << >>
    /\ turn = Idle
    /\ selected = [s \in SessionIds |-> NoPersonality]
    /\ last = [op |-> "init", status |-> 0]

Next ==
    \/ \E init_ok \in BOOLEAN : Startup(init_ok)
    \/ \E s \in SessionIds, p \in PersonalityIds, u \in UserIdInputs :
          SelectPersonality(s, p, u, TRUE)
    \/ \E s \in SessionIds, u \in UserIdInputs :
          StartRoadmap(s, u, TRUE)
    \/ \E s \in SessionIds \cup {None}, u \in UserIdInputs, c \in CompletionAnswers :
          Chat(s, u, "hi", <<>>, TRUE, EmbeddingOk, TRUE, c, EmbeddingOk, TRUE)
    \/ \E s \in SessionIds : ClearHistory(s)
    \/ \E u \in UserIdStrings : GetUserSessions(u)

Spec == Init /\ [][Next]_vars

----------------------------------------------------------------------------
(* get_system_prompt over every session row and personality table *)

\* the tables get_system_prompt can be handed: any of the seeded rows
PersonalityTables ==
    {[i \in ids |-> InitDbSeed(<< >>)[i]] : ids \in SUBSET (1..Len(SeedPersonalities))}

\* the rows a session can have, and no row at all
SessionRows ==
    [user_id : {None}, personality_id : {NoPersonality} \cup PersonalityIds \cup {3},
     mode : {"chat", "roadmap"}]

InitPrompt ==
    /\ started = TRUE
    /\ personalities \in PersonalityTables
    /\ \/ session_configs = << >>
       \/ \E row \in SessionRows : session_configs = [s \in {"s1"} |-> row]
    /\ conversation_messages = << >>
    /\ conversation_history = << >>
    /\ active_connections = << >>
    /\ connections = << >>
    /\ turn = Idle
    /\ selected = [s \in SessionIds |-> NoPersonality]
    /\ last = [op |-> "init", status |-> 0]

CallGetSystemPrompt(session_id) ==
    /\ last' = [op |-> "get_system_prompt", status |-> 0, session_id |-> session_id,
                prompt |-> GetSystemPrompt(session_id, session_configs, personalities)]
    /\ UNCHANGED <<active_connections, connections, started, personalities, session_configs, conversation_messages,
                   conversation_history, turn, selected>>

NextPrompt == \E s \in SessionIds : CallGetSystemPrompt(s)

SpecPrompt == InitPrompt /\ [][NextPrompt]_vars

----------------------------------------------------------------------------
(* main.search_similar_messages *)

\* limit of SearchRequest when the caller sends none
DEFAULT_LIMIT == 5

Min(a, b) == IF a < b THEN a ELSE b

Max(a, b) == IF a > b THEN a ELSE b

RECURSIVE Dot(_, _)
Dot(a, b) ==
    IF a = <<>> \/ b = <<>> THEN 0
    ELSE Head(a) * Head(b) + Dot(Tail(a), Tail(b))

\* the dot product alone, the division by the norms left out
CosineSimilarity_NoNorm(q, m) == [dot |-> Dot(q, m), nn |-> 1]

\* np.dot(q, m) / (norm(q) * norm(m)), kept exact: the score is dot / sqrt(nn),
\* and nn = 0 is the 0/0 of a zero vector, which numpy and pgvector give as NaN
CosineSimilarity(q, m) == [dot |-> Dot(q, m), nn |-> Dot(q, q) * Dot(m, m)]

IsNaN(x) == x.nn = 0

\* the score is the number 0
IsZero(x) == x.nn # 0 /\ x.dot = 0

\* the score is the number 1
IsOne(x) == x.nn # 0 /\ x.dot > 0 /\ x.dot * x.dot = x.nn

\* x < y on floats: False when either is NaN
ScoreLt(x, y) ==
    /\ ~IsNaN(x)
    /\ ~IsNaN(y)
    /\ IF x.dot < 0 /\ y.dot >= 0 THEN TRUE
       ELSE IF x.dot >= 0 /\ y.dot < 0 THEN FALSE
       ELSE IF x.dot >= 0
       THEN x.dot * x.dot * y.nn < y.dot * y.dot * x.nn
       ELSE x.dot * x.dot * y.nn > y.dot * y.dot * x.nn

Reverse(seq) == [i \in 1..Len(seq) |-> seq[Len(seq) + 1 - i]]

\* list.sort of CPython on a list shorter than 64: count_run finds the run at the
\* front, binarysort inserts the rest one by one; sim(x) < sim(y) is the only test
RECURSIVE RunAscending(_, _)
RunAscending(a, i) ==
    IF i < Len(a) /\ ~ScoreLt(a[i + 1].similarity, a[i].similarity)
    THEN RunAscending(a, i + 1) ELSE i

RECURSIVE RunDescending(_, _)
RunDescending(a, i) ==
    IF i < Len(a) /\ ScoreLt(a[i + 1].similarity, a[i].similarity)
    THEN RunDescending(a, i + 1) ELSE i

RECURSIVE BinarySearch(_, _, _, _)
BinarySearch(a, pivot, l, r) ==
    IF l >= r THEN l
    ELSE LET p == l + ((r - l) \div 2)
         IN  IF ScoreLt(pivot.similarity, a[p].similarity)
             THEN BinarySearch(a, pivot, l, p)
             ELSE BinarySearch(a, pivot, p + 1, r)

RECURSIVE BinarySort(_, _)
BinarySort(a, start) ==
    IF start > Len(a) THEN a
    ELSE LET l == BinarySearch(a, a[start], 1, start)
         IN  BinarySort(SubSeq(a, 1, l - 1) \o <<a[start]>> \o SubSeq(a, l, start - 1)
                           \o SubSeq(a, start + 1, Len(a)),
                        start + 1)

ListSort(a) ==
    IF Len(a) < 2 THEN a
    ELSE IF ScoreLt(a[2].similarity, a[1].similarity)
    THEN LET n == RunDescending(a, 2)
         IN  BinarySort(Reverse(SubSeq(a, 1, n)) \o SubSeq(a, n + 1, Len(a)), n + 1)
    ELSE BinarySort(a, RunAscending(a, 2) + 1)

\* sorted(rows, key=similarity, reverse=True): reversed, sorted ascending, reversed
SortedReverse(a) == Reverse(ListSort(Reverse(a)))

\* seq[:limit]
SliceTo(seq, limit) ==
    IF limit >= 0
    THEN SubSeq(seq, 1, Min(limit, Len(seq)))
    ELSE SubSeq(seq, 1, Max(Len(seq) + limit, 0))

\* the rows both queries select: embedding not NULL, and the user's rows when
\* user_id is given and is a UUID; a user_id that is no UUID filters nothing
RECURSIVE Candidates(_, _, _, _)
Candidates(log, i, query_embedding, user_id) ==
    IF i > Len(log) THEN <<>>
    ELSE IF /\ log[i].embedding # NoEmbedding
            /\ (user_id # None /\ UUIDOf(user_id) # ValueError)
                  => log[i].user_id = UUIDOf(user_id)
    THEN <<[id |-> i,
            session_id |-> log[i].session_id,
            role |-> log[i].role,
            content |-> log[i].content,
            similarity |-> CosineSimilarity(query_embedding, log[i].embedding)]>>
            \o Candidates(log, i + 1, query_embedding, user_id)
    ELSE Candidates(log, i + 1, query_embedding, user_id)

\* what a block of the function hands on: a value, or an exception
Return(path, results) == [raised |-> FALSE, path |-> path, results |-> results]

Raise(path) == [raised |-> TRUE, path |-> path, results |-> <<>>]

\* lines 181-226, the body of the outer try: no embedding for the query gives [];
\* otherwise the pgvector query, whose rows are sorted and cut in Python.
\* native_ok tells whether db.execute and fetchall went through
NativeSearch(log, query_embedding, user_id, limit, native_ok) ==
    IF query_embedding = NoEmbedding THEN Return("none", <<>>)
    ELSE IF ~native_ok THEN Raise("native")
    ELSE Return("native",
                SliceTo(SortedReverse(Candidates(log, 1, query_embedding, user_id)),
                        limit))

\* lines 232-275, the body of the inner try: the scan with numpy.
\* fallback_ok tells whether the query of the ORM went through
FallbackSearch(log, query_embedding, user_id, limit, fallback_ok) ==
    IF ~fallback_ok THEN Raise("fallback")
    ELSE Return("fallback",
                SliceTo(SortedReverse(Candidates(log, 1, query_embedding, user_id)),
                        limit))

SearchSimilarMessages_NoInnerExcept(log, answer, user_id, limit, native_ok, fallback_ok) ==
    LET query_embedding == GenerateEmbedding(answer)
        body == NativeSearch(log, query_embedding, user_id, limit, native_ok)
    IN  IF body.raised
        THEN FallbackSearch(log, query_embedding, user_id, limit, fallback_ok)
        ELSE body

\* what the caller of search_similar_messages gets: the outer except runs the
\* fallback, the inner except turns a failure of the fallback into []
SearchSimilarMessages(log, answer, user_id, limit, native_ok, fallback_ok) ==
    LET query_embedding == GenerateEmbedding(answer)
        body == NativeSearch(log, query_embedding, user_id, limit, native_ok)
        inner == FallbackSearch(log, query_embedding, user_id, limit, fallback_ok)
    IN  IF body.raised
        THEN IF inner.raised THEN Return("failed", <<>>) ELSE inner
        ELSE body

\* main.search_conversations: POST /chat/search
Search(answer, user_id, limit, native_ok, fallback_ok) ==
    LET out == SearchSimilarMessages(conversation_messages, answer, user_id, limit,
                                     native_ok, fallback_ok)
    IN  /\ started
        /\ last' = [op |-> "search",
                    status |-> IF out.raised THEN 500 ELSE 200,
                    raised |-> out.raised,
                    query_embedding |-> GenerateEmbedding(answer),
                    user_id |-> user_id,
                    limit |-> limit,
                    native_ok |-> native_ok,
                    fallback_ok |-> fallback_ok,
                    path |-> out.path,
                    results |-> out.results]
        /\ UNCHANGED <<active_connections, connections, started, personalities, session_configs, conversation_messages,
                       conversation_history, turn, selected>>

\* a turn's call of save_conversation_message, lines 583-589 and 613-619
SaveMessage(session_id, role, content, user_id, answer) ==
    /\ started
    /\ Len(conversation_messages) < MaxLog
    /\ conversation_messages' =
          SaveConversationMessage(conversation_messages, session_id, role, content,
                                  user_id, answer, TRUE)
    /\ last' = [op |-> "save", status |-> 0]
    /\ UNCHANGED <<active_connections, connections, started, personalities, session_configs, conversation_history,
                   turn, selected>>

\* the embeddings the provider answers with for a stored message
Vectors == {<<0, 0>>, <<1, 0>>, <<0, 1>>, <<1, 1>>}

StoredEmbeddingAnswers ==
    {[ok |-> FALSE]} \cup {[ok |-> TRUE, embedding |-> v] : v \in Vectors}

\* and for a query: a failure, an empty list, and vectors
QueryEmbeddingAnswers ==
    {[ok |-> FALSE], [ok |-> TRUE, embedding |-> <<>>]}
       \cup {[ok |-> TRUE, embedding |-> v] : v \in Vectors \ {<<0, 1>>}}

\* no filter, the UUID of "u1" spelled in capitals, and a string that is no UUID
SearchUserIds == {None, "U1", "bad"}

Limits == {-1, 1, DEFAULT_LIMIT}

\* a search reads the Message Log and changes nothing, so a search that follows
\* a search finds what the first one could have found: searches are taken from
\* the states the other steps leave
NextSearch ==
    \/ Startup(TRUE)
    \/ \E u \in {None, "u1", "u2"}, a \in StoredEmbeddingAnswers :
          SaveMessage("s1", "user", "hi", u, a)
    \/ /\ last.op # "search"
       /\ \E a \in QueryEmbeddingAnswers, u \in SearchUserIds, limit \in Limits,
             native_ok \in BOOLEAN, fallback_ok \in BOOLEAN :
             Search(a, u, limit, native_ok, fallback_ok)

SpecSearch == Init /\ [][NextSearch]_vars

----------------------------------------------------------------------------
(* Turns on both surfaces, with the failures of the providers and the storage *)

\* a caller's history: a well-formed entry, an entry without content, and an
\* entry with a key more than role and content
CallerHistory ==
    <<[role |-> "user", content |-> "a"],
      [role |-> "assistant"],
      [role |-> "assistant", content |-> "b", name |-> "n"]>>

TurnHistories == {<<>>, CallerHistory}

\* the Embedding Provider raises, answers with an empty list, or with a vector
TurnEmbeddingAnswers == {[ok |-> FALSE], [ok |-> TRUE, embedding |-> <<>>], EmbeddingOk}

\* what an append meets: the provider's answer and whether the commit goes through
AppendAnswers ==
    {[embedding |-> e, commit_ok |-> TRUE] : e \in TurnEmbeddingAnswers}
       \cup {[embedding |-> EmbeddingOk, commit_ok |-> FALSE]}

\* the requests of these turns: a first message of a new session, and a message
\* of a session whose caller keeps the history itself
TurnRequests ==
    {[session_id |-> None, history |-> h] : h \in TurnHistories}
       \cup {[session_id |-> "s1", history |-> CallerHistory]}

NextTurn ==
    \/ Startup(TRUE)
    \/ WsConnect("w1")
    \/ \E r \in TurnRequests, u \in AppendAnswers, c \in CompletionAnswers,
          a \in AppendAnswers :
          Chat(r.session_id, None, "hi", r.history, TRUE, u.embedding, u.commit_ok, c,
               a.embedding, a.commit_ok)
    \/ /\ Len(conversation_messages) + 2 <= MaxLog
       /\ \/ \E r \in TurnRequests, u \in AppendAnswers, c \in CompletionAnswers,
                a \in AppendAnswers :
                WsFrame("w1", TRUE, r.session_id, None, "hi", r.history, u.embedding,
                        u.commit_ok, c, a.embedding, a.commit_ok)
          \/ \E s \in {"s1", None}, valid_json \in BOOLEAN, m \in {"", "hi"} :
                /\ ~valid_json \/ m = ""
                /\ WsFrame("w1", valid_json, s, None, m, <<>>, EmbeddingOk, TRUE,
                           [ok |-> TRUE, text |-> "reply"], EmbeddingOk, TRUE)

SpecTurn == Init /\ [][NextTurn]_vars

----------------------------------------------------------------------------
(* Turns on both surfaces with long histories, and the transcript cache *)

\* rows of the Message Log here: two turns
MaxTurnRows == 4

\* a caller's history of n well-formed entries
LongHistory(n) == [i \in 1..n |-> [role |-> "user", content |-> ToString(i)]]

CacheHistories ==
    {<<>>, CallerHistory, LongHistory(HISTORY_LIMIT - 1), LongHistory(HISTORY_LIMIT)}

NextCache ==
    \/ Startup(TRUE)
    \/ StartRoadmap("s1", None, TRUE)
    \/ ClearHistory("s1")
    \/ WsConnect("w1")
    \/ /\ Len(conversation_messages) + 2 <= MaxTurnRows
       /\ \E s \in {"s1", None}, h \in CacheHistories, c \in CompletionAnswers :
             \/ ChatTurn(s, None, "hi", h, TRUE, EmbeddingOk, TRUE, c, EmbeddingOk, TRUE)
             \/ WsFrame("w1", TRUE, s, None, "hi", h, EmbeddingOk, TRUE, c,
                        EmbeddingOk, TRUE)

SpecCache == Init /\ [][NextCache]_vars

----------------------------------------------------------------------------
(* Every operation that can touch the Message Log, in any order *)

NextLog ==
    \/ Startup(TRUE)
    \/ SelectPersonality("s1", 2, None, TRUE)
    \/ StartRoadmap("s1", None, TRUE)
    \/ \E s \in SessionIds : ClearHistory(s)
    \/ /\ last.op # "search"
       /\ Search(EmbeddingOk, None, DEFAULT_LIMIT, FALSE, TRUE)
    \/ WsConnect("w1")
    \/ WsDisconnect("w1")
    \/ /\ Len(conversation_messages) + 2 <= MaxTurnRows
       /\ \E s \in {"s1", None}, c \in CompletionAnswers, commit_ok \in BOOLEAN :
             \/ ChatTurn(s, None, "hi", <<>>, TRUE, EmbeddingOk, commit_ok, c,
                         EmbeddingOk, TRUE)
             \/ WsFrame("w1", TRUE, s, None, "hi", <<>>, EmbeddingOk, commit_ok, c,
                        EmbeddingOk, TRUE)

SpecLog == Init /\ [][NextLog]_vars

----------------------------------------------------------------------------
(* The same turns on the request/response surface and on the streaming surface *)

\* the user ids of these turns: none, a UUID, and a string that is no UUID
SurfaceUserIds == {None, "u1", "bad"}

NextSurfaces ==
    \/ Startup(TRUE)
    \/ SelectPersonality("s1", 2, None, TRUE)
    \/ StartRoadmap("s1", None, TRUE)
    \/ WsConnect("w1")
    \/ /\ Len(conversation_messages) + 2 <= MaxTurnRows
       /\ \E s \in {"s1", None}, u \in SurfaceUserIds, h \in TurnHistories,
             c \in CompletionAnswers :
             \/ ChatTurn(s, u, "hi", h, TRUE, EmbeddingOk, TRUE, c, EmbeddingOk, TRUE)
             \/ WsFrame("w1", TRUE, s, u, "hi", h, EmbeddingOk, TRUE, c,
                        EmbeddingOk, TRUE)

SpecSurfaces == Init /\ [][NextSurfaces]_vars

----------------------------------------------------------------------------
(* A /chat turn step by step, next to the other coroutines of the event loop *)
(* and the handlers of the thread pool.  chat and websocket_chat are          *)
(* `async def` and call boto3's invoke_model and the database directly, with  *)
(* no await from the reading of the history to the writing of the cache, so   *)
(* the turn holds the event loop from its first line to its response and the  *)
(* other coroutines (turn = Idle in their guards) run before or after it.     *)

NextStall ==
    \/ Startup(TRUE)
    \/ WsConnect("w1")
    \/ SelectPersonality("s1", 2, None, TRUE)
    \/ \E s \in SessionIds : ClearHistory(s)
    \/ \E s \in {"s1", None}, h \in TurnHistories : ChatBegin(s, None, "hi", h, TRUE)
    \/ ChatPrompt
    \/ ChatHistory
    \/ \E a \in EmbeddingAnswers : ChatSaveUser(a, TRUE)
    \/ \E c \in CompletionAnswers : ChatInvoke(c)
    \/ \E a \in EmbeddingAnswers : ChatSaveAssistant(a, TRUE)
    \/ ChatStore
    \/ /\ Len(conversation_messages) + 2 <= MaxLog
       /\ \E s \in {"s2", None}, c \in CompletionAnswers :
             WsFrame("w1", TRUE, s, None, "hi", <<>>, EmbeddingOk, TRUE, c,
                     EmbeddingOk, TRUE)

SpecStall == Init /\ [][NextStall]_vars

----------------------------------------------------------------------------
(* Two turns of one session, sent at the same time on either surface.  Both   *)
(* handlers run on the one event loop without an await between the reading of *)
(* the cache and its writing, so the two turns run one after the other, in    *)
(* either order.                                                              *)

RaceMessages == {"m1", "m2"}

\* lines 609-610: the provider raises, answers with a text, or answers with a
\* content block that has no text, which .get("text", "") reads as ""
RaceCompletions == CompletionAnswers \cup {[ok |-> TRUE, text |-> ""]}

NextRace ==
    \/ Startup(TRUE)
    \/ WsConnect("w1")
    \/ /\ Len(conversation_messages) + 2 <= MaxTurnRows
       /\ \E m \in RaceMessages, h \in TurnHistories, c \in RaceCompletions :
             /\ \A i \in 1..Len(conversation_messages) :
                   conversation_messages[i].content # m
             /\ \/ ChatTurn("s1", None, m, h, TRUE, EmbeddingOk, TRUE, c, EmbeddingOk, TRUE)
                \/ WsFrame("w1", TRUE, "s1", None, m, h, EmbeddingOk, TRUE, c,
                           EmbeddingOk, TRUE)

SpecRace == Init /\ [][NextRace]_vars

----------------------------------------------------------------------------
(* start_roadmap next to a /chat turn of the same session.  start_roadmap is  *)
(* a `def` handler: it runs in the thread pool, at any point of the turn that *)
(* the event loop thread is in.                                               *)

\* the provider's answer tells under which prompt it was given: a question of
\* the interview under the interview prompt, a reply under any other
ProviderAnswer(system_prompt) ==
    [ok |-> TRUE,
     text |-> IF system_prompt = ROADMAP_SYSTEM_PROMPT THEN "question" ELSE "reply"]

NextRoadmap ==
    \/ Startup(TRUE)
    \/ StartRoadmap("s1", None, TRUE)
    \/ WsConnect("w1")
    \/ ChatBegin("s1", None, "m1", <<>>, TRUE)
    \/ ChatPrompt
    \/ ChatHistory
    \/ ChatSaveUser(EmbeddingOk, TRUE)
    \/ /\ turn.pc = "invoke"
       /\ \E c \in {[ok |-> FALSE], ProviderAnswer(turn.system_prompt)} : ChatInvoke(c)
    \/ ChatSaveAssistant(EmbeddingOk, TRUE)
    \/ ChatStore
    \/ /\ Len(conversation_messages) + 2 <= MaxTurnRows
       /\ WsFrame("w1", TRUE, "s1", None, "m2", <<>>, EmbeddingOk, TRUE,
                  ProviderAnswer(GetSystemPrompt("s1", session_configs, personalities)),
                  EmbeddingOk, TRUE)

SpecRoadmap == Init /\ [][NextRoadmap]_vars

----------------------------------------------------------------------------
(* Streaming connections: two clients that open, send frames and close *)

NextConnections ==
    \/ Startup(TRUE)
    \/ \E c \in ConnIds : WsConnect(c)
    \/ \E c \in ConnIds : WsDisconnect(c)
    \/ /\ Len(conversation_messages) + 2 <= MaxTurnRows
       /\ \E c \in ConnIds, s \in SessionIds, a \in CompletionAnswers :
             WsFrame(c, TRUE, s, None, "hi", <<>>, EmbeddingOk, TRUE, a, EmbeddingOk, TRUE)
    \/ \E c \in ConnIds, valid_json \in BOOLEAN, m \in {"", "hi"} :
          /\ ~valid_json \/ m = ""
          /\ WsFrame(c, valid_json, "s1", None, m, <<>>, EmbeddingOk, TRUE,
                     [ok |-> TRUE, text |-> "reply"], EmbeddingOk, TRUE)

SpecConnections == Init /\ [][NextConnections]_vars

----------------------------------------------------------------------------
(* Claims *)

\* C1: a session whose mode is roadmap gets ROADMAP_SYSTEM_PROMPT from
\* get_system_prompt, and a chat turn on such a session sends that prompt to the
\* Completion Provider, whatever personality the session has.
C1_RoadmapPromptFixed ==
    /\ \A s \in DOMAIN session_configs :
          session_configs[s].mode = "roadmap"
             => GetSystemPrompt(s, session_configs, personalities) = ROADMAP_SYSTEM_PROMPT
    /\ ( /\ last.op = "chat"
         /\ "sent" \in DOMAIN last
         /\ ModeOf(session_configs, last.session_id) = "roadmap" )
         => last.sent.system = ROADMAP_SYSTEM_PROMPT

\* a turn reached the Completion Provider on a roadmap session that has a personality
C1_Witness ==
    /\ last.op = "chat"
    /\ "sent" \in DOMAIN last
    /\ ModeOf(session_configs, last.session_id) = "roadmap"
    /\ session_configs[last.session_id].personality_id \in DOMAIN personalities

\* C2: after a successful select_personality the session has a row and its mode
\* is chat, whether the session had no row, was in chat mode or in roadmap mode.
C2_SelectSetsChatMode ==
    (last.op = "select" /\ last.status = 200)
       => ModeOf(session_configs, last.session_id) = "chat"

\* select_personality succeeded on a session that start_roadmap had put in roadmap mode
C2_Witness ==
    /\ last.op = "select"
    /\ last.status = 200
    /\ last.prev_mode = "roadmap"

\* C3: get_system_prompt is the priority chain: roadmap mode, else the bound
\* personality's row, else the default personality's row, else the fallback string.
C3_PriorityChain ==
    last.op = "get_system_prompt" =>
        LET s == last.session_id
            has_row == s \in DOMAIN session_configs
            defaults == {i \in DOMAIN personalities :
                            personalities[i].name = DEFAULT_PERSONALITY_NAME}
        IN  \/ /\ has_row
               /\ session_configs[s].mode = "roadmap"
               /\ last.prompt = ROADMAP_SYSTEM_PROMPT
            \/ /\ ~(has_row /\ session_configs[s].mode = "roadmap")
               /\ has_row
               /\ session_configs[s].personality_id \in DOMAIN personalities
               /\ last.prompt = personalities[session_configs[s].personality_id].system_prompt
            \/ /\ ~(has_row /\ session_configs[s].mode = "roadmap")
               /\ ~(has_row /\ session_configs[s].personality_id \in DOMAIN personalities)
               /\ defaults # {}
               /\ \E i \in defaults : last.prompt = personalities[i].system_prompt
            \/ /\ ~(has_row /\ session_configs[s].mode = "roadmap")
               /\ ~(has_row /\ session_configs[s].personality_id \in DOMAIN personalities)
               /\ defaults = {}
               /\ last.prompt = FALLBACK_PROMPT

\* get_system_prompt ran for a chat session bound to a personality that has no row,
\* with the default personality there
C3_Witness ==
    /\ last.op = "get_system_prompt"
    /\ last.session_id \in DOMAIN session_configs
    /\ session_configs[last.session_id].mode = "chat"
    /\ session_configs[last.session_id].personality_id # NoPersonality
    /\ session_configs[last.session_id].personality_id \notin DOMAIN personalities
    /\ \E i \in DOMAIN personalities : personalities[i].name = DEFAULT_PERSONALITY_NAME

\* C4: a chat turn on a session whose last successful registry call was
\* select_personality(session, p) sends personality p's system prompt to the
\* Completion Provider.
C4_SelectThenChat ==
    ( /\ last.op = "chat"
      /\ "sent" \in DOMAIN last
      /\ selected[last.session_id] # NoPersonality )
      => /\ selected[last.session_id] \in DOMAIN personalities
         /\ last.sent.system = personalities[selected[last.session_id]].system_prompt

\* a turn reached the Completion Provider after a personality other than the default
\* one was selected
C4_Witness ==
    /\ last.op = "chat"
    /\ "sent" \in DOMAIN last
    /\ selected[last.session_id] = 2

\* C5: select_personality with an id that is no row of personalities answers 404
\* and leaves every row of session_configs as it was.
C5_UnknownPersonality ==
    [][ (last'.op = "select" /\ last'.personality_id \notin DOMAIN personalities')
           => (last'.status = 404 /\ session_configs' = session_configs) ]_vars

\* select_personality answered 404 while the table is seeded and a session has a row
C5_Witness ==
    /\ last.op = "select"
    /\ last.status = 404
    /\ DOMAIN personalities # {}
    /\ DOMAIN session_configs # {}

\* C6, as claimed: once a session row has a user_id, no step replaces it.
C6_OwnerNeverReplaced ==
    [][ \A s \in DOMAIN session_configs :
           session_configs[s].user_id # None
              => session_configs'[s].user_id = session_configs[s].user_id ]_vars

\* C7: search_similar_messages hands no exception to its caller; it returns the
\* empty list when the Embedding Provider gives no embedding for the query, and
\* the empty list when the native query and the fallback both fail.
C7_SearchNeverRaises ==
    last.op = "search" =>
        /\ ~last.raised
        /\ last.query_embedding = NoEmbedding => last.results = <<>>
        /\ (~last.native_ok /\ ~last.fallback_ok) => last.results = <<>>

\* a search had the query's embedding, rows with an embedding were stored, and both
\* queries failed
C7_Witness ==
    /\ last.op = "search"
    /\ last.query_embedding # NoEmbedding
    /\ ~last.native_ok
    /\ ~last.fallback_ok
    /\ \E i \in 1..Len(conversation_messages) :
          conversation_messages[i].embedding # NoEmbedding

\* no later row scores higher than an earlier one
Descending(results) ==
    \A i, j \in 1..Len(results) :
       i < j => ~ScoreLt(results[i].similarity, results[j].similarity)

\* C8, as claimed: whatever the query, the user filter and the limit, the returned
\* rows are in descending order of similarity and there are at most limit of them
\* (none when the limit is not positive), on the native and on the fallback path.
C8_OrderedAndAtMostLimit ==
    (last.op = "search" /\ last.path \in {"native", "fallback"})
        => /\ Descending(last.results)
           /\ Len(last.results) <= Max(last.limit, 0)

\* C9, as claimed: with a user_id given, every returned row is a row of that user,
\* and every returned row has an embedding.
C9_OnlyRowsOfTheUser ==
    last.op = "search" =>
        \A k \in 1..Len(last.results) :
           LET row == conversation_messages[last.results[k].id]
           IN  /\ row.embedding # NoEmbedding
               /\ last.user_id # None => row.user_id = UUIDOf(last.user_id)

\* C10, as claimed: a stored row whose embedding has norm zero does not make the
\* scan that divides by the norms raise, and the similarity returned for it is 0.
C10_ZeroNormScoresZero ==
    (last.op = "search" /\ ~last.native_ok /\ last.fallback_ok) =>
        /\ ~last.raised
        /\ \A k \in 1..Len(last.results) :
              LET row == conversation_messages[last.results[k].id]
              IN  Dot(row.embedding, row.embedding) = 0
                     => IsZero(last.results[k].similarity)

\* C11: the scan with numpy scores a stored embedding equal to the query's
\* (and not the zero vector) as 1, and one orthogonal to it as 0.
C11_IdenticalOneOrthogonalZero ==
    (last.op = "search" /\ last.path = "fallback") =>
        \A k \in 1..Len(last.results) :
           LET q == last.query_embedding
               m == conversation_messages[last.results[k].id].embedding
           IN  /\ (m = q /\ Dot(q, q) # 0) => IsOne(last.results[k].similarity)
               /\ (Dot(q, m) = 0 /\ Dot(q, q) # 0 /\ Dot(m, m) # 0)
                     => IsZero(last.results[k].similarity)

\* the scan returned a row whose embedding is the query's and a row orthogonal
\* to the query
C11_Witness ==
    /\ last.op = "search"
    /\ last.path = "fallback"
    /\ Dot(last.query_embedding, last.query_embedding) # 0
    /\ \E k \in 1..Len(last.results) :
          conversation_messages[last.results[k].id].embedding = last.query_embedding
    /\ \E k \in 1..Len(last.results) :
          LET m == conversation_messages[last.results[k].id].embedding
          IN  Dot(m, m) # 0 /\ Dot(m, last.query_embedding) = 0

\* the last step was a turn that handed a transcript to the Completion Provider
Invoked(l) == l.op \in {"chat", "ws"} /\ "sent" \in DOMAIN l

\* the last step was a turn that answered its caller with the assistant's text
Answered(l) == Invoked(l) /\ l.response # None

\* b is the last Len(b) entries of a
IsSuffix(b, a) ==
    /\ Len(b) <= Len(a)
    /\ \A i \in 1..Len(b) : b[i] = a[Len(a) - Len(b) + i]

\* C12: every cached transcript has at most 50 entries, and after a turn that
\* answered, the session's cached transcript is the most recent 50 entries of
\* the turn's transcript: what was sent, and the assistant's turn.
C12_CacheHoldsLast50 ==
    /\ \A s \in DOMAIN conversation_history : Len(conversation_history[s]) <= 50
    /\ Answered(last) =>
          LET transcript == Append(last.sent.messages,
                                   [role |-> "assistant", content |-> last.response])
              cached == conversation_history[last.session_id]
          IN  /\ Len(cached) = Min(Len(transcript), 50)
              /\ IsSuffix(cached, transcript)

\* a turn with a history of 50 entries answered: 52 entries, 50 of them cached
C12_Witness ==
    /\ Answered(last)
    /\ Len(last.sent.messages) = 51
    /\ Len(conversation_history[last.session_id]) = 50

\* the user's turn of the step
UserTurn(l) == [role |-> "user", content |-> l.message]

\* C13, as claimed: the transcript sent is the caller's history when the request
\* has one, otherwise the session's cached transcript, otherwise empty, with the
\* user's turn appended.
C13_TranscriptSource ==
    [][ Invoked(last') =>
          last'.sent.messages =
             Append(IF last'.history # <<>>
                    THEN last'.history
                    ELSE IF last'.session_id \in DOMAIN conversation_history
                    THEN conversation_history[last'.session_id]
                    ELSE <<>>,
                    UserTurn(last')) ]_vars

\* the entries of a caller's history that have a role and a content, those two
\* keys of each
RECURSIVE RoleAndContent(_)
RoleAndContent(h) ==
    IF h = <<>> THEN <<>>
    ELSE IF "role" \in DOMAIN Head(h) /\ "content" \in DOMAIN Head(h)
    THEN <<[role |-> Head(h).role, content |-> Head(h).content]>> \o RoleAndContent(Tail(h))
    ELSE RoleAndContent(Tail(h))

\* C13, amended: the transcript sent is the role and content of the well-formed
\* entries of the caller's history when the request has a non-empty one,
\* otherwise the session's cached transcript, otherwise empty, with the user's
\* turn appended.
C13_TranscriptSourceWellFormed ==
    [][ Invoked(last') =>
          last'.sent.messages =
             Append(IF last'.history # <<>>
                    THEN RoleAndContent(last'.history)
                    ELSE IF last'.session_id \in DOMAIN conversation_history
                    THEN conversation_history[last'.session_id]
                    ELSE <<>>,
                    UserTurn(last')) ]_vars

\* a turn was sent the two well-formed entries of a caller's history of three and
\* the user's turn, on a session that has a cached transcript of another length
C13_Witness ==
    /\ Invoked(last)
    /\ Len(last.history) = 3
    /\ Len(last.sent.messages) = 3
    /\ last.session_id \in DOMAIN conversation_history
    /\ Len(conversation_history[last.session_id]) > 4

\* the last step was a turn that got past the test of its message
Began(l) == l.op \in {"chat", "ws"} /\ "flags" \in DOMAIN l

\* the caller was told of a failure: status 500, or an error frame and no
\* message frame
ExplicitFailure(l) ==
    \/ l.op = "chat" /\ l.status = 500
    \/ /\ l.op = "ws"
       /\ l.frames[Len(l.frames)].type = "error"
       /\ \A i \in 1..Len(l.frames) : l.frames[i].type # "message"

\* a is the first Len(a) entries of b
IsPrefix(a, b) ==
    /\ Len(a) <= Len(b)
    /\ \A i \in 1..Len(a) : b[i] = a[i]

\* row is the record of the turn of role of step l
IsRowOf(row, l, role) ==
    /\ row.session_id = l.session_id
    /\ row.role = role
    /\ role = "user" => row.content = l.message
    /\ role = "assistant" => row.content = l.response

\* C14: when the Completion Provider call of a turn fails, the caller is told of
\* a failure and gets no assistant text, and the user's row written before the
\* call is in the Message Log after the turn, with every row that was there.
C14_CompletionFailureKeepsUserRow ==
    [][ (Invoked(last') /\ ~last'.flags.completion) =>
          /\ ExplicitFailure(last')
          /\ last'.response = None
          /\ IsPrefix(conversation_messages, conversation_messages')
          /\ last'.flags.save_user =>
                /\ Len(conversation_messages') = Len(conversation_messages) + 1
                /\ IsRowOf(conversation_messages'[Len(conversation_messages')],
                           last', "user") ]_vars

\* a turn on the streaming surface whose Completion Provider call failed left its
\* user row behind
C14_Witness ==
    /\ Invoked(last)
    /\ last.op = "ws"
    /\ ~last.flags.completion
    /\ Len(conversation_messages) = last.rows_before + 1
    /\ conversation_messages[Len(conversation_messages)].role = "user"

\* C15: when the Embedding Provider fails or answers with an empty list while a
\* message is appended, the message is inserted without an embedding and the
\* turn goes on: the Completion Provider is called after the user's row, the
\* caller is answered after the assistant's row.
C15_EmbeddingFailureIsNotFatal ==
    [][ /\ (Began(last') /\ ~last'.flags.emb_user /\ last'.flags.save_user) =>
             /\ Invoked(last')
             /\ Len(conversation_messages') > Len(conversation_messages)
             /\ LET row == conversation_messages'[Len(conversation_messages) + 1]
                IN  row.role = "user" /\ row.embedding = NoEmbedding
        /\ ( /\ Began(last')
             /\ last'.flags.completion
             /\ ~last'.flags.emb_assistant
             /\ last'.flags.save_assistant ) =>
             /\ Answered(last')
             /\ LET row == conversation_messages'[Len(conversation_messages')]
                IN  row.role = "assistant" /\ row.embedding = NoEmbedding ]_vars

\* a turn whose two embeddings both failed was answered and left two rows
\* without an embedding
C15_Witness ==
    /\ Answered(last)
    /\ ~last.flags.emb_user
    /\ ~last.flags.emb_assistant
    /\ Len(conversation_messages) = last.rows_before + 2
    /\ \A i \in (last.rows_before + 1)..Len(conversation_messages) :
          conversation_messages[i].embedding = NoEmbedding

\* C17, as claimed: a turn that answered its caller has created two rows for its
\* session, the user's and the assistant's.
C17_AnsweredTurnHasTwoRows ==
    Answered(last) =>
        /\ Len(conversation_messages) = last.rows_before + 2
        /\ IsRowOf(conversation_messages[last.rows_before + 1], last, "user")
        /\ IsRowOf(conversation_messages[last.rows_before + 2], last, "assistant")

\* the rows a turn that answered leaves when the storage took save_user and
\* save_assistant as the flags tell
RowsExpected(l) ==
    (IF l.flags.save_user THEN <<"user">> ELSE <<>>)
       \o (IF l.flags.save_assistant THEN <<"assistant">> ELSE <<>>)

\* C17, amended: a turn that answered its caller has created, for its session,
\* the user's row and then the assistant's row, each one unless the storage
\* failed on it; a row the storage failed on is missing and the turn answered
\* all the same.
C17_AnsweredTurnHasItsSavedRows ==
    Answered(last) =>
        LET roles == RowsExpected(last)
        IN  /\ Len(conversation_messages) = last.rows_before + Len(roles)
            /\ \A i \in 1..Len(roles) :
                  IsRowOf(conversation_messages[last.rows_before + i], last, roles[i])

\* a turn answered with both of its rows saved
C17_Witness ==
    /\ Answered(last)
    /\ last.flags.save_user
    /\ last.flags.save_assistant
    /\ Len(conversation_messages) = last.rows_before + 2

\* C18: a storage failure while a message is saved is swallowed: no row is
\* left, the turn goes on to the Completion Provider, and when the provider
\* answers, the caller gets the response.
C18_StorageFailureIsSwallowed ==
    [][ (Began(last') /\ (~last'.flags.save_user \/ ~last'.flags.save_assistant)) =>
          /\ Invoked(last')
          /\ last'.flags.completion => (Answered(last') /\ ~ExplicitFailure(last'))
          /\ IsPrefix(conversation_messages, conversation_messages')
          /\ \A i \in (Len(conversation_messages) + 1)..Len(conversation_messages') :
                /\ conversation_messages'[i].role = "user" => last'.flags.save_user
                /\ conversation_messages'[i].role = "assistant"
                      => last'.flags.save_assistant ]_vars

\* a turn whose user row the storage refused was answered, and only the
\* assistant's row was added
C18_Witness ==
    /\ Answered(last)
    /\ ~last.flags.save_user
    /\ Len(conversation_messages) = last.rows_before + 1
    /\ conversation_messages[Len(conversation_messages)].role = "assistant"

\* C20: a frame on /ws/chat with an empty or missing message is answered with
\* one error frame and nothing else happens: no session frame, no row, no call
\* of the Completion Provider, the cache, the connection registry and the
\* connection's session id as before.
C20_EmptyMessageFrame ==
    [][ (last'.op = "ws" /\ last'.valid_json /\ last'.message = "") =>
          /\ last'.frames = <<ErrorFrame>>
          /\ ~Invoked(last')
          /\ UNCHANGED <<personalities, session_configs, conversation_messages,
                         conversation_history, active_connections, connections>> ]_vars

\* an empty frame that named no session was answered with an error frame on a
\* connection that had not had a turn
C20_Witness ==
    /\ last.op = "ws"
    /\ last.valid_json
    /\ last.message = ""
    /\ last.frames = <<ErrorFrame>>
    /\ connections[last.conn].session_id = None
    /\ active_connections = << >>

\* C16: the Message Log is append-only: whatever step is taken, every row
\* that was in the log is in it afterwards, at its place and as it was.
C16_LogAppendOnly ==
    [][ IsPrefix(conversation_messages, conversation_messages') ]_vars

\* rows of two sessions are in the log after a session was cleared
C16_Witness ==
    /\ last.op = "clear"
    /\ \E i \in 1..Len(conversation_messages) :
          conversation_messages[i].session_id = last.session_id
    /\ \E i \in 1..Len(conversation_messages) :
          conversation_messages[i].session_id # last.session_id

\* the string is given and is no UUID
Malformed(user_id) == user_id # None /\ UUIDOf(user_id) = ValueError

\* the step was given a malformed user_id
GivenMalformedUserId(l, ops) ==
    l.op \in ops /\ "user_id" \in DOMAIN l /\ Malformed(l.user_id)

\* C19, as claimed: select_personality, start_roadmap, the session listing and a
\* chat turn, given a malformed user id, answer with a 4xx status and change
\* neither the registry, nor the Message Log, nor the cache.
C19_MalformedUserIdRejected ==
    [][ GivenMalformedUserId(last', {"select", "roadmap", "sessions", "chat"}) =>
          /\ last'.status \in 400..499
          /\ UNCHANGED <<session_configs, conversation_messages,
                         conversation_history>> ]_vars

\* C19, amended: select_personality, start_roadmap and the session listing,
\* given a malformed user id, answer with a 4xx status and change no state; a
\* chat turn given one ignores it: the turn runs, the registry is as before and
\* the rows it writes have no user id.
C19_MalformedUserIdRejectedOrIgnored ==
    [][ /\ GivenMalformedUserId(last', {"select", "roadmap", "sessions"}) =>
             /\ last'.status \in 400..499
             /\ UNCHANGED <<session_configs, conversation_messages,
                            conversation_history>>
        /\ GivenMalformedUserId(last', {"chat"}) =>
             /\ Invoked(last')
             /\ session_configs' = session_configs
             /\ IsPrefix(conversation_messages, conversation_messages')
             /\ \A i \in (Len(conversation_messages) + 1)..Len(conversation_messages') :
                   conversation_messages'[i].user_id = None ]_vars

\* start_roadmap answered 400 for a malformed user id on a session that has a row
C19_Witness ==
    /\ last.op = "roadmap"
    /\ last.status = 400
    /\ Malformed(last.user_id)
    /\ DOMAIN session_configs # {}

\* the turn of a frame of the streaming surface
WsTurn(l) == l.op = "ws" /\ "flags" \in DOMAIN l

\* the places of the frames of one type among the frames sent
FramesOfType(frames, type) == {i \in 1..Len(frames) : frames[i].type = type}

\* C21: a turn of the streaming surface sends a session frame exactly when its
\* inbound frame names no session; the id of that frame is one no session had
\* before, the session frame is the first frame and comes before the message
\* frame, and the rows written, the cache entry written and the message frame
\* all carry that id.
C21_FreshSessionFrame ==
    [][ WsTurn(last') =>
          LET l == last'
              sessions == FramesOfType(l.frames, "session")
              messages == FramesOfType(l.frames, "message")
          IN  /\ (sessions # {}) <=> (l.session_id_in = None)
              /\ l.session_id_in # None => l.session_id = l.session_id_in
              /\ l.session_id_in = None =>
                    /\ sessions = {1}
                    /\ l.frames[1].session_id = l.session_id
                    /\ ~Used(l.session_id)
                    /\ \A i \in messages : i > 1
              /\ \A i \in messages : l.frames[i].session_id = l.session_id
              /\ IsPrefix(conversation_messages, conversation_messages')
              /\ \A i \in (Len(conversation_messages) + 1)..Len(conversation_messages') :
                    conversation_messages'[i].session_id = l.session_id
              /\ \A s \in DOMAIN conversation_history' :
                    s # l.session_id =>
                       /\ s \in DOMAIN conversation_history
                       /\ conversation_history'[s] = conversation_history[s]
              /\ messages # {} => l.session_id \in DOMAIN conversation_history' ]_vars

\* a frame that named no session was answered with a session frame and a message
\* frame, and its two rows and its cache entry are there
C21_Witness ==
    /\ WsTurn(last)
    /\ last.session_id_in = None
    /\ Len(last.frames) = 2
    /\ last.frames[1].type = "session"
    /\ last.frames[2].type = "message"
    /\ Len(conversation_messages) = last.rows_before + 2
    /\ last.session_id \in DOMAIN conversation_history

\* C22: a turn with the same session id, user id, message, history and provider
\* answers leaves the Session Registry, the Message Log and the cache as the
\* other surface would have left them, and sends the same prompt and transcript:
\* a step of /ws/chat ends where /chat would have ended, and a step of /chat
\* where /ws/chat would have.
C22_SurfacesEquivalent ==
    [][ \A s \in {"s1", None}, u \in SurfaceUserIds, h \in TurnHistories,
           c \in CompletionAnswers :
          /\ WsFrame("w1", TRUE, s, u, "hi", h, EmbeddingOk, TRUE, c, EmbeddingOk, TRUE) =>
                LET out == ChatOutcome(session_configs, personalities,
                                       conversation_messages, conversation_history,
                                       last'.session_id, u, "hi", h, TRUE, EmbeddingOk,
                                       TRUE, c, EmbeddingOk, TRUE)
                IN  /\ session_configs' = out.configs
                    /\ conversation_messages' = out.log
                    /\ conversation_history' = out.cache
                    /\ last'.sent = [system |-> out.system, messages |-> out.messages]
          /\ ChatTurn(s, u, "hi", h, TRUE, EmbeddingOk, TRUE, c, EmbeddingOk, TRUE) =>
                LET out == WsTurnOutcome(personalities, session_configs,
                                         conversation_messages, conversation_history,
                                         active_connections, "w1", s, last'.session_id,
                                         u, "hi", h, EmbeddingOk, TRUE, c, EmbeddingOk,
                                         TRUE)
                IN  /\ session_configs' = session_configs
                    /\ conversation_messages' = out.log
                    /\ conversation_history' = out.cache
                    /\ last'.sent = [system |-> out.system, messages |-> out.messages]
      ]_vars

\* C23: clear_history takes the session's entry out of the cache and leaves the
\* entries of the other sessions, the Session Registry, the Persona Store, the
\* Message Log and the connections as they were; for a session without an entry
\* the cache is as before too.
C23_ClearDropsOnlyThatEntry ==
    [][ last'.op = "clear" =>
          /\ DOMAIN conversation_history' = DOMAIN conversation_history \ {last'.session_id}
          /\ \A s \in DOMAIN conversation_history' :
                conversation_history'[s] = conversation_history[s]
          /\ last'.found = (last'.session_id \in DOMAIN conversation_history)
          /\ ~last'.found => conversation_history' = conversation_history
          /\ UNCHANGED <<started, personalities, session_configs, conversation_messages,
                         active_connections, connections>> ]_vars

\* a session's entry was cleared while another session has an entry, and the
\* registry and the Message Log hold something
C23_Witness ==
    /\ last.op = "clear"
    /\ last.found
    /\ last.session_id \notin DOMAIN conversation_history
    /\ DOMAIN conversation_history # {}
    /\ DOMAIN session_configs # {}
    /\ \E i \in 1..Len(conversation_messages) :
          conversation_messages[i].session_id = last.session_id

\* the turn in flight is inside a call of the Embedding Provider (the two saves)
\* or of the Completion Provider that has not returned
WaitingOnProvider == turn.pc \in {"save_user", "invoke", "save_assistant"}

\* C24: while a turn waits on its provider call, a turn of another session on an
\* open streaming connection can be taken and run to its end.
C24_StallStallsOnlyItsTurn ==
    (WaitingOnProvider /\ turn.session_id = "s1" /\ "w1" \in DOMAIN connections) =>
       ENABLED WsFrame("w1", TRUE, "s2", None, "hi", <<>>, EmbeddingOk, TRUE,
                       [ok |-> TRUE, text |-> "reply"], EmbeddingOk, TRUE)

\* the session of the step had a turn before this one
SecondTurn(l, log) ==
    \E i \in 1..Len(log) : log[i].session_id = l.session_id /\ log[i].role = "user"

\* C25: when a second turn of a session is answered, the session's cache is the
\* transcript of that turn alone (what it sent, and its answer), whatever the
\* cache held from the other turn, and the Message Log keeps the rows of the
\* other turn and gains the two rows of this one.
C25_LastWriterWins ==
    [][ (Answered(last') /\ SecondTurn(last', conversation_messages)) =>
          LET l == last'
              transcript == Append(l.sent.messages,
                                   [role |-> "assistant", content |-> l.response])
          IN  /\ conversation_history'[l.session_id] = LastN(transcript, HISTORY_LIMIT)
              /\ IsPrefix(conversation_messages, conversation_messages')
              /\ Len(conversation_messages') = Len(conversation_messages) + 2
              /\ IsRowOf(conversation_messages'[Len(conversation_messages) + 1], l, "user")
              /\ IsRowOf(conversation_messages'[Len(conversation_messages) + 2], l,
                         "assistant") ]_vars

\* both turns were answered and are in the Message Log, and the cache holds
\* nothing of the turn that wrote first
C25_Witness ==
    /\ Answered(last)
    /\ Len(conversation_messages) = 4
    /\ \A i \in 1..4 : conversation_messages[i].session_id = last.session_id
    /\ conversation_messages[1].content # last.message
    /\ conversation_messages[2].role = "assistant"
    /\ \A i \in 1..Len(conversation_history[last.session_id]) :
          conversation_history[last.session_id][i].content # conversation_messages[1].content

\* C26: after a successful select_personality or start_roadmap, and after a chat
\* turn of either surface whose request names session s1, the Session Registry
\* has a row of that session; a row that select_personality or a chat turn
\* creates has mode chat; and no step takes a row away.
C26_RowOnFirstReference ==
    [][ /\ \A u \in SurfaceUserIds, h \in TurnHistories, c \in CompletionAnswers :
              (\/ ChatTurn("s1", u, "hi", h, TRUE, EmbeddingOk, TRUE, c, EmbeddingOk, TRUE)
               \/ WsFrame("w1", TRUE, "s1", u, "hi", h, EmbeddingOk, TRUE, c,
                          EmbeddingOk, TRUE))
                 => "s1" \in DOMAIN session_configs'
        /\ (last'.op \in {"select", "roadmap"} /\ last'.status = 200) =>
              last'.session_id \in DOMAIN session_configs'
        /\ \A s \in DOMAIN session_configs' \ DOMAIN session_configs :
              last'.op # "roadmap" => session_configs'[s].mode = "chat"
        /\ DOMAIN session_configs \subseteq DOMAIN session_configs' ]_vars

\* the names of the rows init_db inserts
SeedNames == {SeedPersonalities[i].name : i \in 1..Len(SeedPersonalities)}

\* C27: the Persona Store is empty or holds the three seeded personas, with
\* names that differ and prompts that are not empty; once it has rows, no step
\* (a further startup included) adds, changes or removes one.
C27_SeededOnce ==
    [][ /\ Cardinality(DOMAIN personalities') \in {0, Len(SeedPersonalities)}
        /\ {personalities'[i].name : i \in DOMAIN personalities'} \subseteq SeedNames
        /\ \A i, j \in DOMAIN personalities' :
              personalities'[i].name = personalities'[j].name => i = j
        /\ \A i \in DOMAIN personalities' : personalities'[i].system_prompt # ""
        /\ DOMAIN personalities # {} => personalities' = personalities ]_vars

\* the service started again after a persona of the seeded table had been
\* selected and a turn answered, and the three personas are there
C27_Witness ==
    /\ last.op = "startup"
    /\ Len(conversation_messages) > 0
    /\ Cardinality(DOMAIN personalities) = Len(SeedPersonalities)
    /\ \E s \in DOMAIN session_configs :
          session_configs[s].personality_id \in DOMAIN personalities

\* the last row of the log is the row of this role and content of the session
LastRowIs(log, session_id, role, content) ==
    /\ Len(log) > 0
    /\ log[Len(log)].session_id = session_id
    /\ log[Len(log)].role = role
    /\ log[Len(log)].content = content

RowsToScan(log, user_id) ==
    {i \in 1..Len(log) :
        /\ log[i].embedding # NoEmbedding
        /\ user_id # None => log[i].user_id = UUIDOf(user_id)}

\* results are limit rows of the set (all of them when there are fewer), each
\* with its cosine similarity to the query, none scoring less than a row left out
\* or than a later row
TopByCosine(results, log, rows, query_embedding, limit) ==
    /\ Len(results) = Min(Max(limit, 0), Cardinality(rows))
    /\ \A k \in 1..Len(results) :
          /\ results[k].id \in rows
          /\ results[k].similarity =
                CosineSimilarity(query_embedding, log[results[k].id].embedding)
          /\ \A i \in rows \ {results[j].id : j \in 1..Len(results)} :
                ~ScoreLt(results[k].similarity,
                         CosineSimilarity(query_embedding, log[i].embedding))
    /\ \A j, k \in 1..Len(results) : results[j].id = results[k].id => j = k
    /\ Descending(results)

\* C29, as claimed: when the native query fails and the query has its embedding,
\* the result is the one of the in-process scan: the top limit, by cosine
\* similarity, of the stored rows with an embedding (of the given user when a
\* user_id is given), and so not empty when there is such a row and the limit is
\* positive.
C29_FallbackReturnsTopLimit ==
    (last.op = "search" /\ last.query_embedding # NoEmbedding /\ ~last.native_ok) =>
        TopByCosine(last.results, conversation_messages,
                    RowsToScan(conversation_messages, last.user_id),
                    last.query_embedding, last.limit)

\* the turn called the provider and got no answer
FailedTurn(l) == Invoked(l) /\ ~Answered(l)

\* the places in the log of the user rows of the session whose turn failed: no
\* assistant row follows them
FailedUserRows(log, session_id) ==
    {i \in 1..Len(log) :
        /\ log[i].session_id = session_id
        /\ log[i].role = "user"
        /\ (i = Len(log) \/ log[i + 1].role # "assistant")}

\* C31: a turn whose completion fails leaves the cache as it was and adds the
\* user row alone to the Message Log; and the transcript a later turn without a
\* caller history sends holds no message of a failed turn of the session,
\* whose user row is in the log.
C31_FailedTurnLeavesCache ==
    [][ /\ FailedTurn(last') =>
              /\ conversation_history' = conversation_history
              /\ Len(conversation_messages') = Len(conversation_messages) + 1
              /\ IsPrefix(conversation_messages, conversation_messages')
              /\ IsRowOf(conversation_messages'[Len(conversation_messages')], last', "user")
        /\ (Invoked(last') /\ last'.history = <<>>) =>
              \A i \in FailedUserRows(conversation_messages, last'.session_id) :
                 \A k \in 1..Len(last'.sent.messages) :
                    last'.sent.messages[k].content # conversation_messages[i].content
      ]_vars

\* after a failed turn of the session, a turn without a caller history was
\* answered: the failed turn's user row is in the log, the cache holds the
\* answered turn alone
C31_Witness ==
    /\ Answered(last)
    /\ last.history = <<>>
    /\ Len(conversation_messages) = 3
    /\ conversation_messages[1].role = "user"
    /\ conversation_messages[1].session_id = last.session_id
    /\ conversation_messages[2].role = "user"
    /\ conversation_messages[3].role = "assistant"
    /\ Len(conversation_history[last.session_id]) = 2

\* C32, as claimed: what is sent to the Completion Provider with the interview
\* prompt holds no answer given under another prompt, that is before the
\* session was switched; and a turn that read its prompt before the switch and
\* finishes after it leaves the session without a cache entry.
C32_NothingFromBeforeTheSwitch ==
    [][ /\ (/\ last'.op \in {"chat", "ws"}
            /\ "sent" \in DOMAIN last'
            /\ last'.sent.system = ROADMAP_SYSTEM_PROMPT) =>
              \A k \in 1..Len(last'.sent.messages) :
                 last'.sent.messages[k].content # "reply"
        /\ (/\ last'.op = "chat"
            /\ turn.pc = "store"
            /\ turn.system_prompt # ROADMAP_SYSTEM_PROMPT
            /\ ModeOf(session_configs, turn.session_id) = "roadmap") =>
              turn.session_id \notin DOMAIN conversation_history' ]_vars

\* the most recent n entries of a transcript
MostRecent(t, n) == [i \in 1..Min(Len(t), n) |-> t[Len(t) - Min(Len(t), n) + i]]

\* C33: a turn that carries a non-empty caller history and is answered leaves as
\* the session's cached transcript the most recent 50 entries of the role and
\* content of the caller's well-formed entries, the user's turn and the
\* assistant's turn, whatever the cache held for the session before the turn;
\* entries of the caller's history without a role or a content are not in it.
C33_CallerHistoryReplacesCache ==
    [][ (Answered(last') /\ last'.history # <<>>) =>
          LET transcript == RoleAndContent(last'.history)
                               \o <<UserTurn(last'),
                                     [role |-> "assistant", content |-> last'.response]>>
              cached == conversation_history'[last'.session_id]
          IN  /\ cached = MostRecent(transcript, 50)
              /\ \A k \in 1..Len(cached) : DOMAIN cached[k] = {"role", "content"} ]_vars

\* a second turn of session s1 was answered: it came with the caller's history
\* of three entries, one of them without content, after a first turn of s1 had
\* two rows logged, and the cache holds four entries
C33_Witness ==
    /\ Answered(last)
    /\ last.history = CallerHistory
    /\ last.session_id = "s1"
    /\ last.rows_before = 2
    /\ \A i \in 1..2 : conversation_messages[i].session_id = "s1"
    /\ Len(conversation_history["s1"]) = 4

\* the step closed a connection
Closed(l) == l.op = "ws_disconnect"

\* C34: every entry of the registry maps its session id to a connection that is
\* open; the close of a connection removes every entry that maps to it, and
\* leaves every entry that maps to another connection as it was.
C34_RegistryMapsOpenConnections ==
    /\ [](\A s \in DOMAIN active_connections :
             active_connections[s] \in DOMAIN connections)
    /\ [][ Closed(last') =>
             \A s \in DOMAIN active_connections :
                IF active_connections[s] = last'.conn
                THEN s \notin DOMAIN active_connections'
                ELSE /\ s \in DOMAIN active_connections'
                     /\ active_connections'[s] = active_connections[s] ]_vars

\* the step was a frame of the streaming surface answered with an error frame
ErrorFrameStep(l) == l.op = "ws" /\ l.frames[Len(l.frames)] = ErrorFrame

\* the step was a frame of the streaming surface that is valid JSON, has a
\* message, and whose call of the Completion Provider went through
ValidFrameStep(l) ==
    /\ l.op = "ws"
    /\ l.valid_json
    /\ l.message # ""
    /\ l.flags.completion

\* C35: a frame answered with an error frame (invalid JSON, empty message, or a
\* failure of the Completion Provider) leaves its connection open and the
\* server ready for the next frame; and a valid frame on a connection, whether
\* it comes right after an error frame of that connection or not, is processed
\* as a turn and answered with a message frame that carries the provider's text.
C35_ConnectionSurvivesFailedTurn ==
    [][ /\ ErrorFrameStep(last') =>
              /\ last'.conn \in DOMAIN connections'
              /\ turn' = Idle
        /\ ValidFrameStep(last') =>
              /\ Answered(last')
              /\ last'.frames[Len(last'.frames)] =
                    MessageFrame(last'.session_id, last'.response)
              /\ FramesOfType(last'.frames, "error") = {}
              /\ Len(conversation_messages') = last'.rows_before + 2 ]_vars

\* a frame was answered with a message frame on a connection that is open, after
\* a turn of the same session whose completion failed had left its user row
C35_Witness ==
    /\ ValidFrameStep(last)
    /\ Answered(last)
    /\ last.conn \in DOMAIN connections
    /\ last.rows_before = 1
    /\ conversation_messages[1].role = "user"
    /\ conversation_messages[1].session_id = last.session_id

====
